---- MODULE Spec2Model ----
(***************************************************************************)
(* Verification model of parts of the Postfix mail system.                *)
(*                                                                         *)
(* Part 1: the queue manager's per-site queue entries                      *)
(*         (src/src/nqmgr/qmgr_entry.c).                                   *)
(* Part 2: mail stream management (src/global/mail_stream.c).              *)
(* Part 3: the address mappings of the cleanup service                     *)
(*         (src/cleanup/cleanup_map11.c, src/cleanup/cleanup_map1n.c).     *)
(* Part 4: the SMTP client's mail exchanger lookup                         *)
(*         (src/src/smtp/smtp_addr.c).                                     *)
(* Part 5: FIFO triggers (src/util/fifo_trigger.c).                        *)
(* Part 6: the bounce logfile reader (src/src/global/bounce_log.c).        *)
(* Part 7: alias expansion of the local delivery agent                     *)
(*         (src/src/local/alias.c).                                        *)
(* Part 8: delivery to mailbox and to file                                 *)
(*         (src/src/local/mailbox.c, src/local/file.c).                    *)
(* Part 9: the pipe delivery agent (src/pipe/pipe.c).                      *)
(* Part 10: the start and the main loop of the master daemon              *)
(*         (src/master/master.c).                                          *)
(* Part 11: message submission by the sendmail command                    *)
(*         (src/src/sendmail/sendmail.c).                                  *)
(* Part 12: creation of a directory hierarchy (src/util/make_dirs.c).     *)
(*                                                                         *)
(* Every part has its own variables and its own specification; the        *)
(* specification of one part leaves the variables of the others alone.    *)
(***************************************************************************)
EXTENDS Integers, Sequences, FiniteSets, TLC

(***************************************************************************)
(* The state.                                                              *)
(***************************************************************************)

\* Part 1: the in-core queue manager structures.
VARIABLES
    queue_incore,       \* queue -> the QMGR_QUEUE structure exists
    window,             \* queue->window
    todo,               \* queue->todo, as the sequence of its entries
    busy,               \* queue->busy
    todo_refcount,      \* queue->todo_refcount
    busy_refcount,      \* queue->busy_refcount
    queue_blocker_tag,  \* queue->blocker_tag
    peer_incore,        \* peer -> the QMGR_PEER structure exists
    entry_list,         \* peer->entry_list
    peer_refcount,      \* peer->refcount
    entries,            \* the entries allocated so far: message, peer, queue, stream, live
    msg_refcount,       \* message->refcount
    active_done_calls,  \* message -> number of qmgr_active_done() calls
    selected_entries,   \* job->selected_entries
    job_list,           \* transport->job_list
    job_current,        \* transport->job_current
    candidate_cache_current, \* transport->candidate_cache_current
    transport_blocker_tag,   \* transport->blocker_tag
    qmgr_queue_count,   \* number of in-core queues, all transports
    panic,              \* "" or the msg_panic() text that ended the process
    done_obs,           \* <<>> or <<what the qmgr_entry_done just made saw at its start>>
    sel_pre,            \* <<>> or <<the lists and counts before the select just made>>
    undone              \* <<>> or <<what an unselect right after that select must restore>>

qvars == <<queue_incore, window, todo, busy, todo_refcount, busy_refcount,
           queue_blocker_tag, peer_incore, entry_list, peer_refcount, entries,
           msg_refcount, active_done_calls, selected_entries, job_list,
           job_current, candidate_cache_current, transport_blocker_tag,
           qmgr_queue_count, panic, done_obs, sel_pre, undone>>

\* Part 2: the queue files written through mail streams.
VARIABLES
    has_fsync,      \* the build defines HAS_FSYNC
    ms_file,        \* queue file -> whether it exists, and its permissions
    ms_stream,      \* queue file -> info->stream: "none", "open" or "closed"
    ms_status,      \* queue file -> the result of mail_stream_finish()
    ms_calls        \* queue file -> the calls made by mail_stream_finish_file()

svars == <<has_fsync, ms_file, ms_stream, ms_status, ms_calls>>

\* Part 3: one call of an address mapping routine of the cleanup service.
VARIABLES
    cm_maps,        \* the lookup tables: key -> the values of its entry
    cm_pc,          \* "idle", "map11", "map1n", "map11_return" or "map1n_return"
    cm_addr,        \* cleanup_map11_external: addr
    cm_argv,        \* cleanup_map1n_internal: argv
    cm_arg,         \* cleanup_map1n_internal: arg
    cm_count,       \* count, in either routine
    cleanup_errs,   \* the set of CLEANUP_STAT flags raised
    cm_warn,        \* the warnings logged by this call
    cm_lookups,     \* the number of mail_addr_map() calls of this call
    cm_last         \* <<>> or <<the last mail_addr_map() call and its result>>

cvars == <<cm_maps, cm_pc, cm_addr, cm_argv, cm_arg, cm_count, cleanup_errs,
           cm_warn, cm_lookups, cm_last>>

\* Part 4: the last call of smtp_domain_addr().
VARIABLES
    sm_dns,         \* what the DNS answered to the call
    sm_conf,        \* the configuration parameters the call read
    sm_r,           \* the result: the list, smtp_errno, why, found_myself
    sm_called       \* smtp_domain_addr() has been called

mvars == <<sm_dns, sm_conf, sm_r, sm_called>>

\* Part 5: a FIFO, its listener and a client of fifo_trigger().
VARIABLES
    ff_listener,        \* a process holds the FIFO open for reading
    ff_buf,             \* the bytes in the pipe
    ft_pc,              \* where the call of fifo_trigger() is
    ft_timeout,         \* its timeout argument
    ft_mode,            \* the mode of its descriptor
    ft_result,          \* what the last call returned
    ft_warn,            \* the system calls of the last call that failed
    trig_count,         \* calls that have returned
    wakeup_count,       \* runs of read_event()
    ft_written          \* bytes that write_buf() has written

fvars == <<ff_listener, ff_buf, ft_pc, ft_timeout, ft_mode, ft_result,
           ft_warn, trig_count, wakeup_count, ft_written>>

\* Part 6: a bounce logfile and a handle on it.
VARIABLES
    bl_file,            \* the bytes of the logfile
    bl_bp,              \* the BOUNCE_LOG handle, with the position of bp->fp
    bl_op,              \* the last call
    bl_ret,             \* the last bounce_log_read() returned a record
    bl_marked,          \* the offsets of the records marked as deleted
    bl_reopened,        \* the handle was opened after a record was marked
    bl_appended,        \* the bytes that the file has grown by
    bl_marks            \* calls of bounce_log_delrcpt() since the last read

bvars == <<bl_file, bl_bp, bl_op, bl_ret, bl_marked, bl_reopened,
           bl_appended, bl_marks>>

\* Part 7: one request to the local delivery agent's alias expansion.
VARIABLES
    al_in,              \* the request: alias table, recipient, flags
    al_stack,           \* the expansions under way, the innermost last
    al_result,          \* what the top-level deliver_alias() returned
    al_acc,             \* the effects: lookups, bounces, deferrals
    al_last,            \* the last call of deliver_alias()
    al_loops,           \* the calls that ran into the depth cap
    al_called           \* the request has been made

avars == <<al_in, al_stack, al_result, al_acc, al_last, al_loops,
           al_called>>

\* Part 8: one delivery to a mailbox file or to a file.
VARIABLES
    lf_fn,              \* the function that made the delivery
    lf_in,              \* what it was called with and what it found
    lf_out              \* the calls it made and what it reported

lvars == <<lf_fn, lf_in, lf_out>>

\* Part 9: a pipe delivery agent process.
VARIABLES
    pp_argv,            \* the command line of the service
    pp_delim,           \* var_rcpt_delim
    pp_alive,           \* the process is running
    pp_attr,            \* the static attr of deliver_message
    pp_dict,            \* the macros of PIPE_DICT_TABLE
    pp_req,             \* the last request and the answers it got
    pp_out,             \* what came of the last request
    pp_restarted        \* the master has started a new process

pvars ==
    <<pp_argv, pp_delim, pp_alive, pp_attr, pp_dict, pp_req, pp_out,
      pp_restarted>>

\* Part 10: master processes and the master.pid lock file.
VARIABLES
    ma_pc,              \* process -> where it is in main()
    ma_test,            \* process -> test_lock
    ma_status,          \* process -> how it ended
    ma_exists,          \* the lock file exists
    ma_lock,            \* the process that holds the lock, or none
    master_gotsighup,   \* process -> master_gotsighup
    master_gotsigchld,  \* process -> master_gotsigchld
    ma_due,             \* process -> signals delivered, handler not yet run
    ma_sighup_seen      \* process -> SIGHUP flag at the return of event_loop

mavars ==
    <<ma_pc, ma_test, ma_status, ma_exists, ma_lock, master_gotsighup,
      master_gotsigchld, ma_due, ma_sighup_seen>>

\* Part 11: one call of enqueue() of the sendmail command.
VARIABLES
    eq_in,              \* what enqueue() was called with and what it met
    eq_dst,             \* the records written to the postdrop command
    eq_exit             \* how the call ended

eqvars == <<eq_in, eq_dst, eq_exit>>

\* Part 12: two calls of make_dirs() for the same path.
VARIABLES
    md_fs,              \* component -> "none", "dir" or "file"
    md_fs0,             \* the components before the calls
    md_call,            \* process -> where its call is, with ret and errno
    md_fault            \* the system has refused a call

mdvars == <<md_fs, md_fs0, md_call, md_fault>>

vars == <<qvars, svars, cvars, mvars, fvars, bvars, avars, lvars, pvars,
          mavars, eqvars, mdvars>>

\* What the steps of a part leave alone.
notqvars == <<svars, cvars, mvars, fvars, bvars, avars, lvars, pvars, mavars,
              eqvars, mdvars>>

notsvars == <<qvars, cvars, mvars, fvars, bvars, avars, lvars, pvars, mavars,
              eqvars, mdvars>>

notcvars == <<qvars, svars, mvars, fvars, bvars, avars, lvars, pvars, mavars,
              eqvars, mdvars>>

notmvars == <<qvars, svars, cvars, fvars, bvars, avars, lvars, pvars, mavars,
              eqvars, mdvars>>

notfvars == <<qvars, svars, cvars, mvars, bvars, avars, lvars, pvars, mavars,
              eqvars, mdvars>>

notbvars == <<qvars, svars, cvars, mvars, fvars, avars, lvars, pvars, mavars,
              eqvars, mdvars>>

notavars == <<qvars, svars, cvars, mvars, fvars, bvars, lvars, pvars, mavars,
              eqvars, mdvars>>

notlvars == <<qvars, svars, cvars, mvars, fvars, bvars, avars, pvars, mavars,
              eqvars, mdvars>>

notpvars == <<qvars, svars, cvars, mvars, fvars, bvars, avars, lvars, mavars,
              eqvars, mdvars>>

notmavars == <<qvars, svars, cvars, mvars, fvars, bvars, avars, lvars, pvars,
               eqvars, mdvars>>

noteqvars == <<qvars, svars, cvars, mvars, fvars, bvars, avars, lvars, pvars,
               mavars, mdvars>>

notmdvars == <<qvars, svars, cvars, mvars, fvars, bvars, avars, lvars, pvars,
               mavars, eqvars>>

(***************************************************************************)
(* Part 1.  qmgr_entry.c                                                   *)
(*                                                                         *)
(* One transport.  A job is one message's stake in the transport, so jobs  *)
(* are named by their message.  A peer is the {job, queue} junction.       *)
(* Entries are named by the order of their allocation.                     *)
(***************************************************************************)

\* Bounds of the model.
MaxCreated == 2
MaxWindow == 2
\* The configured value of qmgr_message_recipient_limit in the model.
var_qmgr_rcpt_limit == 1

\* The in-core queues of the other transports: as many as it takes for the
\* queues of this transport to cross the limit of 2 * var_qmgr_rcpt_limit.
OtherQueues == 2 * var_qmgr_rcpt_limit - 1

Queues == {"q1", "q2"}
Messages == {"m1", "m2"}
Peers == Messages \X Queues
NoJob == "none"
QMGR_QUEUE_TODO == "TODO"
QMGR_QUEUE_BUSY == "BUSY"
BadWhich == "BAD"

\* The program state as one value, so that a handler is the composition of
\* the calls it makes.
Cur ==
    [queue_incore |-> queue_incore, window |-> window, todo |-> todo,
     busy |-> busy, todo_refcount |-> todo_refcount,
     busy_refcount |-> busy_refcount, queue_blocker_tag |-> queue_blocker_tag,
     peer_incore |-> peer_incore, entry_list |-> entry_list,
     peer_refcount |-> peer_refcount, entries |-> entries,
     msg_refcount |-> msg_refcount, active_done_calls |-> active_done_calls,
     selected_entries |-> selected_entries, job_list |-> job_list,
     job_current |-> job_current,
     candidate_cache_current |-> candidate_cache_current,
     transport_blocker_tag |-> transport_blocker_tag,
     qmgr_queue_count |-> qmgr_queue_count, panic |-> panic]

Becomes(s) ==
    /\ queue_incore' = s.queue_incore
    /\ window' = s.window
    /\ todo' = s.todo
    /\ busy' = s.busy
    /\ todo_refcount' = s.todo_refcount
    /\ busy_refcount' = s.busy_refcount
    /\ queue_blocker_tag' = s.queue_blocker_tag
    /\ peer_incore' = s.peer_incore
    /\ entry_list' = s.entry_list
    /\ peer_refcount' = s.peer_refcount
    /\ entries' = s.entries
    /\ msg_refcount' = s.msg_refcount
    /\ active_done_calls' = s.active_done_calls
    /\ selected_entries' = s.selected_entries
    /\ job_list' = s.job_list
    /\ job_current' = s.job_current
    /\ candidate_cache_current' = s.candidate_cache_current
    /\ transport_blocker_tag' = s.transport_blocker_tag
    /\ qmgr_queue_count' = s.qmgr_queue_count
    /\ panic' = s.panic
    /\ UNCHANGED notqvars

\* QMGR_LIST_UNLINK(head, type, object, peers) and
\* QMGR_LIST_APPEND(head, object, peers) of qmgr.h.
QMGR_LIST_UNLINK(list, e) == SelectSeq(list, LAMBDA x : x # e)

QMGR_LIST_APPEND(list, e) == Append(list, e)

\* list.next: the first object of a list, 0 when the list is empty.
ListNext(list) == IF list = <<>> THEN 0 ELSE Head(list)

JobListNext(s) == IF s.job_list = <<>> THEN NoJob ELSE Head(s.job_list)

PeerJob(p) == p[1]

PeerQueue(p) == p[2]

(***************************************************************************)
(* The queue manager code outside qmgr_entry.c that the entry operations   *)
(* call or are called from.                                                *)
(***************************************************************************)

\* qmgr_queue_create(): a new in-core queue, alive, with empty lists.
qmgr_queue_create(s, q, w) ==
    [s EXCEPT !.queue_incore[q] = TRUE,
              !.window[q] = w,
              !.todo[q] = <<>>,
              !.busy[q] = <<>>,
              !.todo_refcount[q] = 0,
              !.busy_refcount[q] = 0,
              !.queue_blocker_tag[q] = 0,
              !.qmgr_queue_count = @ + 1]

\* qmgr_queue_done(): the in-core queue is destroyed.
qmgr_queue_done(s, q) ==
    [s EXCEPT !.queue_incore[q] = FALSE,
              !.window[q] = 0,
              !.todo[q] = <<>>,
              !.busy[q] = <<>>,
              !.todo_refcount[q] = 0,
              !.busy_refcount[q] = 0,
              !.queue_blocker_tag[q] = 0,
              !.qmgr_queue_count = @ - 1]

\* qmgr_queue_unthrottle(): a dead queue comes back to life.
qmgr_queue_unthrottle(s, q) ==
    IF s.window[q] = 0 THEN [s EXCEPT !.window[q] = 1] ELSE s

\* qmgr_peer_obtain(): the peer of a job and a queue, created on first use.
qmgr_peer_obtain(s, p) ==
    IF s.peer_incore[p] THEN s
    ELSE [s EXCEPT !.peer_incore[p] = TRUE,
                   !.entry_list[p] = <<>>,
                   !.peer_refcount[p] = 0]

\* qmgr_peer_free(): the peer structure is discarded.
qmgr_peer_free(s, p) ==
    [s EXCEPT !.peer_incore[p] = FALSE, !.entry_list[p] = <<>>]

\* qmgr_job_obtain(): the job of a message, linked into the transport's job
\* list on first use.
qmgr_job_obtain(s, m) ==
    IF \E i \in 1..Len(s.job_list) : s.job_list[i] = m THEN s
    ELSE [s EXCEPT !.job_list = Append(@, m)]

\* qmgr_active_done(): the message is disposed of; the call is recorded.
qmgr_active_done(s, m) ==
    [s EXCEPT !.active_done_calls[m] = @ + 1]

\* msg_panic(): the process ends.
msg_panic(s, text) == [s EXCEPT !.panic = text]

(***************************************************************************)
(* qmgr_entry.c                                                            *)
(***************************************************************************)

\* qmgr_entry_select - select queue entry for delivery
qmgr_entry_select(s, p) ==
    LET e == ListNext(s.entry_list[p]) IN
    IF e # 0 THEN
        LET q == s.entries[e].queue IN
        [s EXCEPT !.todo[q] = QMGR_LIST_UNLINK(@, e),
                  !.todo_refcount[q] = @ - 1,
                  !.busy[q] = QMGR_LIST_APPEND(@, e),
                  !.busy_refcount[q] = @ + 1,
                  !.entry_list[p] = QMGR_LIST_UNLINK(@, e),
                  !.selected_entries[PeerJob(p)] = @ + 1]
    ELSE s

\* Variants of qmgr_entry_unselect with a slip: the busy count goes up
\* instead of down; the entry is not appended to its peer list; the job's
\* selected_entries is not decremented.
qmgr_entry_unselect_busy_up(s, e) ==
    LET p == s.entries[e].peer
        q == s.entries[e].queue
    IN  [s EXCEPT !.busy[q] = QMGR_LIST_UNLINK(@, e),
                  !.busy_refcount[q] = @ + 1,
                  !.todo[q] = QMGR_LIST_APPEND(@, e),
                  !.todo_refcount[q] = @ + 1,
                  !.entry_list[p] = QMGR_LIST_APPEND(@, e),
                  !.selected_entries[PeerJob(p)] = @ - 1]

qmgr_entry_unselect_no_peer_list(s, e) ==
    LET p == s.entries[e].peer
        q == s.entries[e].queue
    IN  [s EXCEPT !.busy[q] = QMGR_LIST_UNLINK(@, e),
                  !.busy_refcount[q] = @ - 1,
                  !.todo[q] = QMGR_LIST_APPEND(@, e),
                  !.todo_refcount[q] = @ + 1,
                  !.selected_entries[PeerJob(p)] = @ - 1]

qmgr_entry_unselect_no_selected(s, e) ==
    LET p == s.entries[e].peer
        q == s.entries[e].queue
    IN  [s EXCEPT !.busy[q] = QMGR_LIST_UNLINK(@, e),
                  !.busy_refcount[q] = @ - 1,
                  !.todo[q] = QMGR_LIST_APPEND(@, e),
                  !.todo_refcount[q] = @ + 1,
                  !.entry_list[p] = QMGR_LIST_APPEND(@, e)]

\* qmgr_entry_unselect - unselect queue entry for delivery
qmgr_entry_unselect(s, e) ==
    LET p == s.entries[e].peer
        q == s.entries[e].queue
    IN  [s EXCEPT !.busy[q] = QMGR_LIST_UNLINK(@, e),
                  !.busy_refcount[q] = @ - 1,
                  !.todo[q] = QMGR_LIST_APPEND(@, e),
                  !.todo_refcount[q] = @ + 1,
                  !.entry_list[p] = QMGR_LIST_APPEND(@, e),
                  !.selected_entries[PeerJob(p)] = @ - 1]

\* myfree((char *) entry): the entry's memory is gone.
FreedEntry ==
    [stream |-> FALSE, message |-> "m1", peer |-> <<"m1", "q1">>,
     queue |-> "q1", live |-> FALSE]

\* Variant of lines 145-170 with a slip: an entry that leaves the todo list
\* is not counted as selected.
EntryDoneUnlink_todo_not_selected(s, e, which) ==
    LET p == s.entries[e].peer
        q == s.entries[e].queue
    IN  IF which = QMGR_QUEUE_BUSY THEN
            [s EXCEPT !.busy[q] = QMGR_LIST_UNLINK(@, e),
                      !.busy_refcount[q] = @ - 1,
                      !.entries[e] = FreedEntry]
        ELSE
            [s EXCEPT !.entry_list[p] = QMGR_LIST_UNLINK(@, e),
                      !.todo[q] = QMGR_LIST_UNLINK(@, e),
                      !.todo_refcount[q] = @ - 1,
                      !.entries[e] = FreedEntry]

\* qmgr_entry_done, lines 145-170: take this entry off the in-core queue and
\* free it.  The recipient counts of lines 166-168 and the recipient slots
\* that lines 178-186 pass between jobs are fields that no entry operation
\* reads; they are not part of the model.
EntryDoneUnlink(s, e, which) ==
    LET p == s.entries[e].peer
        q == s.entries[e].queue
        job == PeerJob(p)
    IN  IF which = QMGR_QUEUE_BUSY THEN
            [s EXCEPT !.busy[q] = QMGR_LIST_UNLINK(@, e),
                      !.busy_refcount[q] = @ - 1,
                      !.entries[e] = FreedEntry]
        ELSE
            [s EXCEPT !.entry_list[p] = QMGR_LIST_UNLINK(@, e),
                      !.selected_entries[job] = @ + 1,
                      !.todo[q] = QMGR_LIST_UNLINK(@, e),
                      !.todo_refcount[q] = @ - 1,
                      !.entries[e] = FreedEntry]

\* Variants of lines 203-211 with a slip: the tag advances by one; the
\* queue need not be a blocker for the blockers to be unmarked.
EntryDoneBlocker_by_one(s, q) ==
    IF s.queue_blocker_tag[q] = s.transport_blocker_tag THEN
        LET s1 == IF s.window[q] > s.busy_refcount[q] /\ ListNext(s.todo[q]) # 0
                  THEN [s EXCEPT !.transport_blocker_tag = @ + 1,
                                 !.job_current = JobListNext(s),
                                 !.candidate_cache_current = NoJob]
                  ELSE s
        IN  IF s1.window[q] > s1.busy_refcount[q] \/ s1.window[q] = 0
            THEN [s1 EXCEPT !.queue_blocker_tag[q] = 0]
            ELSE s1
    ELSE s

EntryDoneBlocker_no_cursor(s, q) ==
    IF s.queue_blocker_tag[q] = s.transport_blocker_tag THEN
        LET s1 == IF s.window[q] > s.busy_refcount[q] /\ ListNext(s.todo[q]) # 0
                  THEN [s EXCEPT !.transport_blocker_tag = @ + 2,
                                 !.candidate_cache_current = NoJob]
                  ELSE s
        IN  IF s1.window[q] > s1.busy_refcount[q] \/ s1.window[q] = 0
            THEN [s1 EXCEPT !.queue_blocker_tag[q] = 0]
            ELSE s1
    ELSE s

\* qmgr_entry_done, lines 203-211: unmark the transport blockers.
EntryDoneBlocker(s, q) ==
    IF s.queue_blocker_tag[q] = s.transport_blocker_tag THEN
        LET s1 == IF s.window[q] > s.busy_refcount[q] /\ ListNext(s.todo[q]) # 0
                  THEN [s EXCEPT !.transport_blocker_tag = @ + 2,
                                 !.job_current = JobListNext(s),
                                 !.candidate_cache_current = NoJob]
                  ELSE s
        IN  IF s1.window[q] > s1.busy_refcount[q] \/ s1.window[q] = 0
            THEN [s1 EXCEPT !.queue_blocker_tag[q] = 0]
            ELSE s1
    ELSE s

\* Variant of lines 217-219 with a slip: the count is tested before it is
\* decremented.
EntryDonePeer_test_first(s, p) ==
    LET s1 == [s EXCEPT !.peer_refcount[p] = @ - 1] IN
    IF s.peer_refcount[p] = 0 THEN qmgr_peer_free(s1, p) ELSE s1

\* qmgr_entry_done, lines 217-219: discard the peer without entries.
EntryDonePeer(s, p) ==
    LET s1 == [s EXCEPT !.peer_refcount[p] = @ - 1] IN
    IF s1.peer_refcount[p] = 0 THEN qmgr_peer_free(s1, p) ELSE s1

\* Variant of lines 227-232 with a slip: the limit is compared with >=.
EntryDoneQueue_at_limit(s, q) ==
    IF ListNext(s.todo[q]) = 0 /\ ListNext(s.busy[q]) = 0 THEN
        LET s1 == IF s.window[q] = 0
                     /\ s.qmgr_queue_count >= 2 * var_qmgr_rcpt_limit
                  THEN qmgr_queue_unthrottle(s, q)
                  ELSE s
        IN  IF s1.window[q] > 0 THEN qmgr_queue_done(s1, q) ELSE s1
    ELSE s

\* qmgr_entry_done, lines 227-232: discard the in-core queue without entries.
EntryDoneQueue(s, q) ==
    IF ListNext(s.todo[q]) = 0 /\ ListNext(s.busy[q]) = 0 THEN
        LET s1 == IF s.window[q] = 0
                     /\ s.qmgr_queue_count > 2 * var_qmgr_rcpt_limit
                  THEN qmgr_queue_unthrottle(s, q)
                  ELSE s
        IN  IF s1.window[q] > 0 THEN qmgr_queue_done(s1, q) ELSE s1
    ELSE s

\* Variant of lines 238-240 with a slip: the count is tested before it is
\* decremented.
EntryDoneMessage_test_first(s, m) ==
    LET s1 == [s EXCEPT !.msg_refcount[m] = @ - 1] IN
    IF s.msg_refcount[m] = 0 THEN qmgr_active_done(s1, m) ELSE s1

\* qmgr_entry_done, lines 238-240: the in-core message reference count.
EntryDoneMessage(s, m) ==
    LET s1 == [s EXCEPT !.msg_refcount[m] = @ - 1] IN
    IF s1.msg_refcount[m] = 0 THEN qmgr_active_done(s1, m) ELSE s1

\* Variant of lines 148-160 with a slip: the entry is unlinked before the
\* sanity checks are made.
qmgr_entry_done_unlink_first(s, e, which) ==
    LET p == s.entries[e].peer
        q == s.entries[e].queue
        m == s.entries[e].message
        s1 == EntryDoneUnlink(s, e, which)
    IN  IF s.entries[e].stream THEN
            msg_panic(s1, "qmgr_entry_done: file is open")
        ELSE IF which # QMGR_QUEUE_BUSY /\ which # QMGR_QUEUE_TODO THEN
            msg_panic(s1, "qmgr_entry_done: bad queue spec")
        ELSE
            EntryDoneMessage(
                EntryDoneQueue(EntryDonePeer(EntryDoneBlocker(s1, q), p), q), m)

\* qmgr_entry_done - dispose of queue entry
qmgr_entry_done(s, e, which) ==
    LET p == s.entries[e].peer
        q == s.entries[e].queue
        m == s.entries[e].message
    IN  IF s.entries[e].stream THEN
            msg_panic(s, "qmgr_entry_done: file is open")
        ELSE IF which # QMGR_QUEUE_BUSY /\ which # QMGR_QUEUE_TODO THEN
            msg_panic(s, "qmgr_entry_done: bad queue spec")
        ELSE
            EntryDoneMessage(
                EntryDoneQueue(
                    EntryDonePeer(
                        EntryDoneBlocker(EntryDoneUnlink(s, e, which), q),
                        p),
                    q),
                m)

\* qmgr_entry_create - create queue todo entry
qmgr_entry_create(s, p, m) ==
    LET q == PeerQueue(p)
        e == Len(s.entries) + 1
    IN  IF s.window[q] = 0 THEN
            msg_panic(s, "qmgr_entry_create: dead queue")
        ELSE
            [s EXCEPT !.entries = Append(@, [stream |-> FALSE, message |-> m,
                                             peer |-> p, queue |-> q,
                                             live |-> TRUE]),
                      !.msg_refcount[m] = @ + 1,
                      !.entry_list[p] = QMGR_LIST_APPEND(@, e),
                      !.peer_refcount[p] = @ + 1,
                      !.todo[q] = QMGR_LIST_APPEND(@, e),
                      !.todo_refcount[q] = @ + 1]

(***************************************************************************)
(* The operations of part 1 as steps of the queue manager's event loop.    *)
(***************************************************************************)

\* What a qmgr_entry_done for an entry of queue q sees when it starts.
DoneObs(s, q) ==
    [q |-> q,
     pre_tag |-> s.transport_blocker_tag,
     was_dead |-> s.window[q] = 0,
     last_entry |-> Len(s.todo[q]) + Len(s.busy[q]) = 1]

\* The part of a queue, a peer and a job that a select changes.
Snapshot(s, e, p) ==
    LET q == PeerQueue(p) IN
    [e |-> e, p |-> p,
     todo |-> s.todo[q], busy |-> s.busy[q], entry_list |-> s.entry_list[p],
     todo_refcount |-> s.todo_refcount[q],
     busy_refcount |-> s.busy_refcount[q],
     selected_entries |-> s.selected_entries[PeerJob(p)]]

OnList(list, e) == \E i \in 1..Len(list) : list[i] = e

LiveEntries == {e \in 1..Len(entries) : entries[e].live}

QInit ==
    /\ queue_incore = [q \in Queues |-> FALSE]
    /\ window = [q \in Queues |-> 0]
    /\ todo = [q \in Queues |-> <<>>]
    /\ busy = [q \in Queues |-> <<>>]
    /\ todo_refcount = [q \in Queues |-> 0]
    /\ busy_refcount = [q \in Queues |-> 0]
    /\ queue_blocker_tag = [q \in Queues |-> 0]
    /\ peer_incore = [p \in Peers |-> FALSE]
    /\ entry_list = [p \in Peers |-> <<>>]
    /\ peer_refcount = [p \in Peers |-> 0]
    /\ entries = <<>>
    /\ msg_refcount = [m \in Messages |-> 0]
    /\ active_done_calls = [m \in Messages |-> 0]
    /\ selected_entries = [m \in Messages |-> 0]
    /\ job_list = <<>>
    /\ job_current = NoJob
    /\ candidate_cache_current = NoJob
    /\ transport_blocker_tag = 1
    /\ qmgr_queue_count = OtherQueues
    /\ panic = ""
    /\ done_obs = <<>>
    /\ sel_pre = <<>>
    /\ undone = <<>>

\* A recipient of message m is assigned to queue q: the queue, the job and
\* the peer are created on first reference, then the entry is created.  A
\* new queue starts with the configured initial concurrency w.  Recipients
\* for a dead site are deferred without an entry.
QmgrCreate(m, q, w) ==
    LET p == <<m, q>>
        s0 == Cur
        s1 == IF s0.queue_incore[q] THEN s0 ELSE qmgr_queue_create(s0, q, w)
        s2 == qmgr_peer_obtain(qmgr_job_obtain(s1, m), p)
    IN  /\ panic = ""
        /\ Len(entries) < MaxCreated
        /\ active_done_calls[m] = 0
        /\ queue_incore[q] => w = 1 /\ window[q] > 0
        /\ Becomes(qmgr_entry_create(s2, p, m))
        /\ done_obs' = <<>>
        /\ sel_pre' = <<>>
        /\ undone' = <<>>

\* The job scheduler's test of a peer: its queue has a free delivery slot and
\* the peer has an entry waiting.
qmgr_job_peer_select_slack(s, p) ==
    /\ s.window[PeerQueue(p)] >= s.busy_refcount[PeerQueue(p)]
    /\ s.entry_list[p] # <<>>

qmgr_job_peer_select(s, p) ==
    /\ s.window[PeerQueue(p)] > s.busy_refcount[PeerQueue(p)]
    /\ s.entry_list[p] # <<>>

\* The job scheduler selects the first entry of peer p; a queue that reaches
\* its window is stamped as a blocker of the transport.
qmgr_job_entry_select(s, p) ==
    LET q == PeerQueue(p)
        s1 == qmgr_entry_select(s, p)
        s2 == [s1 EXCEPT !.job_current = PeerJob(p),
                         !.candidate_cache_current = PeerJob(p)]
    IN  IF s2.busy_refcount[q] = s2.window[q]
        THEN [s2 EXCEPT !.queue_blocker_tag[q] = s2.transport_blocker_tag]
        ELSE s2

QmgrSelect(p) ==
    LET q == PeerQueue(p) IN
    /\ panic = ""
    /\ peer_incore[p]
    /\ qmgr_job_peer_select(Cur, p)
    /\ Becomes(qmgr_job_entry_select(Cur, p))
    /\ done_obs' = <<>>
    /\ sel_pre' = <<Snapshot(Cur, Head(entry_list[p]), p)>>
    /\ undone' = <<>>

\* The delivery agent could not be reached: the selected entry e goes back.
QmgrUnselect(e) ==
    /\ panic = ""
    /\ e \in LiveEntries
    /\ OnList(busy[entries[e].queue], e)
    /\ Becomes(qmgr_entry_unselect(Cur, e))
    /\ done_obs' = <<>>
    /\ sel_pre' = <<>>
    /\ undone' = IF sel_pre # <<>> /\ sel_pre[1].e = e THEN sel_pre ELSE <<>>

\* Entry e is disposed of: a delivery has completed (busy list), or its
\* recipients are deferred without delivery (todo list).
QmgrDone(e, which) ==
    /\ panic = ""
    /\ e \in LiveEntries
    /\ \/ which = QMGR_QUEUE_BUSY /\ OnList(busy[entries[e].queue], e)
       \/ which = QMGR_QUEUE_TODO /\ OnList(todo[entries[e].queue], e)
    /\ Becomes(qmgr_entry_done(Cur, e, which))
    /\ done_obs' = <<DoneObs(Cur, entries[e].queue)>>
    /\ sel_pre' = <<>>
    /\ undone' = <<>>

\* The window of an in-core queue changes: 0 when the site is declared dead,
\* lower or higher as deliveries fail or succeed.
qmgr_queue_window(s, q, w) == [s EXCEPT !.window[q] = w]

QmgrWindow(q, w) ==
    /\ panic = ""
    /\ queue_incore[q]
    /\ w # window[q]
    /\ Becomes(qmgr_queue_window(Cur, q, w))
    /\ done_obs' = <<>>
    /\ sel_pre' = <<>>
    /\ undone' = <<>>

QNext ==
    \/ \E m \in Messages, q \in Queues, w \in 1..MaxWindow : QmgrCreate(m, q, w)
    \/ \E p \in Peers : QmgrSelect(p)
    \/ \E e \in 1..MaxCreated : QmgrUnselect(e)
    \/ \E e \in 1..MaxCreated, which \in {QMGR_QUEUE_BUSY, QMGR_QUEUE_TODO} :
          QmgrDone(e, which)
    \/ \E q \in Queues, w \in 0..MaxWindow : QmgrWindow(q, w)


(***************************************************************************)
(* The callers that break the interface of the entry operations.  The      *)
(* delivery request of qmgr_deliver.c keeps the stream to the delivery      *)
(* agent in entry->stream from the time the request is sent until the       *)
(* agent's answer has been read.                                            *)
(***************************************************************************)

qmgr_deliver(s, e) == [s EXCEPT !.entries[e].stream = TRUE]

qmgr_deliver_update(s, e) == [s EXCEPT !.entries[e].stream = FALSE]

\* The delivery request for the selected entry e is sent.
QmgrDeliver(e) ==
    /\ panic = ""
    /\ e \in LiveEntries
    /\ OnList(busy[entries[e].queue], e)
    /\ ~entries[e].stream
    /\ Becomes(qmgr_deliver(Cur, e))
    /\ done_obs' = <<>>
    /\ sel_pre' = <<>>
    /\ undone' = <<>>

\* The delivery agent's answer for entry e has been read.
QmgrDeliverUpdate(e) ==
    /\ panic = ""
    /\ e \in LiveEntries
    /\ entries[e].stream
    /\ Becomes(qmgr_deliver_update(Cur, e))
    /\ done_obs' = <<>>
    /\ sel_pre' = <<>>
    /\ undone' = <<>>

\* qmgr_entry_done is called with a queue spec that names no list.
QmgrDoneBadSpec(e) ==
    /\ panic = ""
    /\ e \in LiveEntries
    /\ Becomes(qmgr_entry_done(Cur, e, BadWhich))
    /\ done_obs' = <<>>
    /\ sel_pre' = <<>>
    /\ undone' = <<>>

\* An entry of message m is created for the peer of a queue that has been
\* declared dead.
QmgrCreateDead(m, q) ==
    /\ panic = ""
    /\ Len(entries) < MaxCreated
    /\ active_done_calls[m] = 0
    /\ peer_incore[<<m, q>>]
    /\ window[q] = 0
    /\ Becomes(qmgr_entry_create(Cur, <<m, q>>, m))
    /\ done_obs' = <<>>
    /\ sel_pre' = <<>>
    /\ undone' = <<>>

\* The queues of these runs have a window of one delivery, or are dead.
QPanicNext ==
    \/ \E m \in Messages, q \in Queues : QmgrCreate(m, q, 1)
    \/ \E p \in Peers : QmgrSelect(p)
    \/ \E e \in 1..MaxCreated : QmgrUnselect(e)
    \/ \E e \in 1..MaxCreated, which \in {QMGR_QUEUE_BUSY, QMGR_QUEUE_TODO} :
          QmgrDone(e, which)
    \/ \E q \in Queues, w \in 0..1 : QmgrWindow(q, w)
    \/ \E e \in 1..MaxCreated : QmgrDeliver(e)
    \/ \E e \in 1..MaxCreated : QmgrDeliverUpdate(e)
    \/ \E e \in 1..MaxCreated : QmgrDoneBadSpec(e)
    \/ \E m \in Messages, q \in Queues : QmgrCreateDead(m, q)

(***************************************************************************)
(* Properties of part 1.                                                   *)
(***************************************************************************)

EntriesOf(m) == {e \in LiveEntries : entries[e].message = m}

Occurrences(list, e) == Cardinality({i \in 1..Len(list) : list[i] = e})

Without(list, e) == SelectSeq(list, LAMBDA x : x # e)

IsDoneStep == done_obs' # <<>>

DoneQueue == done_obs'[1].q

\* C1 as stated: between operations every in-core queue has
\* 0 <= busy_refcount <= window, so a dead queue has no busy entries.
C1_BusyWithinWindow ==
    \A q \in Queues :
        queue_incore[q] =>
            /\ 0 <= busy_refcount[q]
            /\ busy_refcount[q] <= window[q]

\* C1 amended: busy_refcount is never negative and no entry operation takes
\* a queue from busy_refcount <= window to busy_refcount > window: while the
\* window is not lowered the bound is kept, a new queue starts within it, and
\* no entry is moved onto the busy list of a dead queue.  Only a lowering of
\* the window can leave busy_refcount above it.
C1_EntryOpsKeepWindow ==
    [][\A q \in Queues :
          queue_incore'[q] =>
              /\ 0 <= busy_refcount'[q]
              /\ ~queue_incore[q] => busy_refcount'[q] <= window'[q]
              /\ (queue_incore[q] /\ window'[q] >= window[q]
                    /\ busy_refcount[q] <= window[q])
                 => busy_refcount'[q] <= window'[q]
              /\ (queue_incore[q] /\ window[q] = 0)
                 => /\ Len(busy'[q]) <= Len(busy[q])
                    /\ busy_refcount'[q] <= busy_refcount[q]]_qvars

\* C1 witness: a select has filled the window of a queue that still has an
\* entry waiting on todo.
C1_Witness ==
    /\ sel_pre # <<>>
    /\ LET q == PeerQueue(sel_pre[1].p) IN
           /\ queue_incore[q]
           /\ busy_refcount[q] = window[q]
           /\ todo[q] # <<>>

\* C2: every live entry is exactly once on exactly one of the todo and busy
\* lists of its queue, on no list of another queue, and on the entry list of
\* its peer (and of no other peer) if and only if it is on todo; the lists
\* hold live entries only.
C2_EntryOnOneList ==
    /\ \A e \in LiveEntries :
          LET q == entries[e].queue
              p == entries[e].peer
          IN  /\ queue_incore[q]
              /\ peer_incore[p]
              /\ PeerQueue(p) = q
              /\ Occurrences(todo[q], e) + Occurrences(busy[q], e) = 1
              /\ Occurrences(entry_list[p], e) = Occurrences(todo[q], e)
              /\ \A r \in Queues \ {q} : ~OnList(todo[r], e) /\ ~OnList(busy[r], e)
              /\ \A r \in Peers \ {p} : ~OnList(entry_list[r], e)
    /\ \A q \in Queues : \A i \in 1..Len(todo[q]) : todo[q][i] \in LiveEntries
    /\ \A q \in Queues : \A i \in 1..Len(busy[q]) : busy[q][i] \in LiveEntries
    /\ \A p \in Peers : \A i \in 1..Len(entry_list[p]) : entry_list[p][i] \in LiveEntries

\* C2 witness: an unselect has put an entry back on todo while another entry
\* of the same queue is busy.
C2_Witness ==
    /\ undone # <<>>
    /\ LET q == PeerQueue(undone[1].p) IN
           /\ busy[q] # <<>>
           /\ OnList(todo[q], undone[1].e)

\* C3: after every step the refcount of every message is the number of live
\* entries that reference it; it goes up only when an entry is created and
\* down only in qmgr_entry_done; qmgr_active_done is called exactly in the
\* step that takes the refcount down to zero, when no entry references the
\* message any more.
C3_MessageRefcount ==
    [][\A m \in Messages :
          /\ msg_refcount'[m] = Cardinality(EntriesOf(m)')
          /\ msg_refcount'[m] > msg_refcount[m]
             => Len(entries') = Len(entries) + 1 /\ msg_refcount'[m] = msg_refcount[m] + 1
          /\ msg_refcount'[m] < msg_refcount[m]
             => IsDoneStep /\ msg_refcount'[m] = msg_refcount[m] - 1
          /\ active_done_calls'[m] =
                active_done_calls[m] +
                (IF msg_refcount[m] > 0 /\ msg_refcount'[m] = 0 THEN 1 ELSE 0)
          /\ active_done_calls'[m] # active_done_calls[m]
             => IsDoneStep /\ EntriesOf(m)' = {}]_qvars

\* C3 witness: a qmgr_entry_done has disposed of one message while the other
\* message still has two entries.
C3_Witness ==
    /\ done_obs # <<>>
    /\ \E m \in Messages : active_done_calls[m] = 1 /\ msg_refcount[m] = 0
    /\ \E m \in Messages : active_done_calls[m] = 0 /\ msg_refcount[m] >= 1

\* C4 as stated: every select takes the entry at the head of the queue's
\* todo list.
C4_SelectTakesTodoHead ==
    sel_pre # <<>> => sel_pre[1].e = Head(sel_pre[1].todo)

\* C5 as stated: a select followed by the unselect of the same entry restores
\* todo, busy and the peer's entry list, contents and order, and the counts.
C5_UnselectRestoresOrder ==
    undone # <<>> =>
        LET u == undone[1]
            q == PeerQueue(u.p)
        IN  /\ todo[q] = u.todo
            /\ busy[q] = u.busy
            /\ entry_list[u.p] = u.entry_list
            /\ todo_refcount[q] = u.todo_refcount
            /\ busy_refcount[q] = u.busy_refcount
            /\ selected_entries[PeerJob(u.p)] = u.selected_entries

\* C5 amended: a select followed by the unselect of the same entry restores
\* the busy list, todo_refcount, busy_refcount and selected_entries; todo and
\* the peer's entry list get their entries back with the entry moved to the
\* tail, so their order is restored only when the entry was their last one.
C5_UnselectRestoresContents ==
    undone # <<>> =>
        LET u == undone[1]
            q == PeerQueue(u.p)
        IN  /\ todo[q] = Append(Without(u.todo, u.e), u.e)
            /\ busy[q] = u.busy
            /\ entry_list[u.p] = Append(Without(u.entry_list, u.e), u.e)
            /\ todo_refcount[q] = u.todo_refcount
            /\ busy_refcount[q] = u.busy_refcount
            /\ selected_entries[PeerJob(u.p)] = u.selected_entries

\* C5 witness: the unselect has undone the select of the first of two
\* entries of a peer.
C5_Witness ==
    /\ undone # <<>>
    /\ Len(undone[1].entry_list) = 2
    /\ entry_list[undone[1].p] # undone[1].entry_list

\* C6: a step that lowers the window of a queue leaves its todo and busy
\* lists and their counts as they are (no busy entry is cancelled or moved
\* back), and while busy_refcount is not below the window no step moves an
\* entry of the queue from todo to busy.
C6_LoweredWindowDrains ==
    [][\A q \in Queues :
          (queue_incore[q] /\ queue_incore'[q]) =>
              /\ window'[q] < window[q]
                 => /\ todo'[q] = todo[q]
                    /\ busy'[q] = busy[q]
                    /\ todo_refcount'[q] = todo_refcount[q]
                    /\ busy_refcount'[q] = busy_refcount[q]
              /\ busy_refcount[q] >= window[q]
                 => /\ busy_refcount'[q] <= busy_refcount[q]
                    /\ \A e \in LiveEntries :
                          OnList(busy'[q], e) => OnList(busy[q], e)]_qvars

\* C6 witness: the window of a queue is below its busy_refcount while an
\* entry waits on its todo list.
C6_Witness ==
    \E q \in Queues :
        /\ queue_incore[q]
        /\ window[q] < busy_refcount[q]
        /\ todo[q] # <<>>

\* C7: after every step the transport's blocker_tag is odd, hence not 0; a
\* step that changes it is a qmgr_entry_done and adds exactly 2.
C7_BlockerTagOdd ==
    [][/\ transport_blocker_tag' % 2 = 1
       /\ transport_blocker_tag' # 0
       /\ transport_blocker_tag' >= transport_blocker_tag
       /\ transport_blocker_tag' # transport_blocker_tag
          => IsDoneStep /\ transport_blocker_tag' = transport_blocker_tag + 2]_qvars

\* C7 witness: a qmgr_entry_done has advanced the blocker_tag.
C7_Witness ==
    /\ done_obs # <<>>
    /\ transport_blocker_tag = done_obs[1].pre_tag + 2

\* The queue of the qmgr_entry_done just made has slack: it is below its
\* window and has an entry on todo.
DoneRestoredSlack ==
    /\ IsDoneStep
    /\ queue_incore'[DoneQueue]
    /\ window'[DoneQueue] > busy_refcount'[DoneQueue]
    /\ todo'[DoneQueue] # <<>>

BlockersUnmarked ==
    /\ transport_blocker_tag' = transport_blocker_tag + 2
    /\ job_current' = JobListNext(Cur')
    /\ candidate_cache_current' = NoJob
    /\ queue_blocker_tag'[DoneQueue] = 0

\* C8 as stated: every qmgr_entry_done that leaves its queue with slack
\* advances the blocker_tag, resets the cursor and the candidate cache and
\* leaves the queue's stamp cleared.
C8_EverySlackUnmarks ==
    [][DoneRestoredSlack => BlockersUnmarked]_qvars

\* C8 amended: a qmgr_entry_done that leaves its queue with slack does so
\* when the queue is marked as a blocker (its stamp equals the transport's
\* blocker_tag at the start); for a queue that is not so marked the tag, the
\* cursor, the candidate cache and the stamp stay as they are.
C8_BlockerSlackUnmarks ==
    [][DoneRestoredSlack =>
          IF queue_blocker_tag[DoneQueue] = transport_blocker_tag
          THEN BlockersUnmarked
          ELSE /\ transport_blocker_tag' = transport_blocker_tag
               /\ job_current' = job_current
               /\ candidate_cache_current' = candidate_cache_current
               /\ queue_blocker_tag'[DoneQueue] = queue_blocker_tag[DoneQueue]]_qvars

\* C8 witness: a qmgr_entry_done on a blocker queue has restored slack and
\* moved the cursor off the job it pointed at.
C8_Witness ==
    /\ done_obs # <<>>
    /\ transport_blocker_tag = done_obs[1].pre_tag + 2
    /\ queue_incore[done_obs[1].q]
    /\ todo[done_obs[1].q] # <<>>
    /\ candidate_cache_current = NoJob
    /\ job_current = Head(job_list)

\* C9: a qmgr_entry_done that removes the last entry of a queue destroys a
\* live queue; it destroys a dead queue when the number of in-core queues
\* exceeds 2 * var_qmgr_rcpt_limit and otherwise leaves it in core and dead;
\* a qmgr_entry_done never destroys a queue that keeps an entry, nor any
\* other queue.
C9_LastEntryQueueCleanup ==
    [][IsDoneStep =>
          LET q == DoneQueue
              last == Len(todo[q]) + Len(busy[q]) = 1
          IN  /\ (last /\ window[q] > 0) => ~queue_incore'[q]
              /\ (last /\ window[q] = 0
                    /\ qmgr_queue_count > 2 * var_qmgr_rcpt_limit)
                 => ~queue_incore'[q]
              /\ (last /\ window[q] = 0
                    /\ qmgr_queue_count <= 2 * var_qmgr_rcpt_limit)
                 => queue_incore'[q] /\ window'[q] = 0
              /\ ~last => queue_incore'[q]
              /\ \A r \in Queues \ {q} : queue_incore'[r] = queue_incore[r]
              /\ qmgr_queue_count' =
                    qmgr_queue_count - (IF queue_incore'[q] THEN 0 ELSE 1)]_qvars

\* C9 witness: a qmgr_entry_done has removed the last entry of a dead queue
\* and destroyed it.
C9_Witness ==
    /\ done_obs # <<>>
    /\ done_obs[1].was_dead
    /\ done_obs[1].last_entry
    /\ ~queue_incore[done_obs[1].q]

\* The other outcome: the dead queue stays in core.
C9_WitnessKept ==
    /\ done_obs # <<>>
    /\ done_obs[1].was_dead
    /\ done_obs[1].last_entry
    /\ queue_incore[done_obs[1].q]

\* The live entries of peer p, and those of them on a busy list.
PeerEntries(p) == {e \in LiveEntries : entries[e].peer = p}

PeerBusy(p) == {e \in PeerEntries(p) : OnList(busy[entries[e].queue], e)}

RefcountsMatch ==
    /\ \A q \in Queues :
          /\ todo_refcount[q] = Len(todo[q])
          /\ busy_refcount[q] = Len(busy[q])
    /\ \A p \in Peers :
          /\ peer_refcount[p] = Cardinality(PeerEntries(p))
          /\ PeerEntries(p) # {} => peer_incore[p]

\* Peer p is freed in this step.
PeerFreed(p) == peer_incore[p] /\ ~peer_incore'[p]

\* This step is a qmgr_entry_done that disposes of the last entry of peer p.
LastEntryDone(p) ==
    /\ IsDoneStep
    /\ PeerEntries(p) # {}
    /\ PeerEntries(p)' = {}

\* C33: between operations todo_refcount and busy_refcount are the lengths
\* of the queue's todo and busy lists and a peer's refcount is the number of
\* its live entries; a peer is freed exactly in the qmgr_entry_done that
\* disposes of its last entry, so no entry on a busy list has a freed peer.
C33_RefcountsAndPeerLife ==
    /\ []RefcountsMatch
    /\ [][\A p \in Peers : PeerFreed(p) <=> LastEntryDone(p)]_vars

\* A peer with one entry on the busy list and one on the todo list lost the
\* first of them and stays; the peer of the only entry was freed by the
\* qmgr_entry_done of that entry.
C33_Witness ==
    /\ done_obs # <<>>
    /\ \E p \in Peers : peer_incore[p] /\ PeerBusy(p) # {}
    /\ \E p \in Peers :
          /\ ~peer_incore[p]
          /\ peer_refcount[p] = 0
          /\ msg_refcount[PeerJob(p)] > 0 \/ active_done_calls[PeerJob(p)] > 0

\* The number of entries of job m on the busy lists, and on the entry lists
\* of its peers.
RECURSIVE SumOver(_, _)
SumOver(f(_), S) ==
    IF S = {} THEN 0
    ELSE LET x == CHOOSE y \in S : TRUE IN f(x) + SumOver(f, S \ {x})

JobBusyOn(m, q) == Len(SelectSeq(busy[q], LAMBDA e : entries[e].message = m))

JobBusy(m) == SumOver(LAMBDA q : JobBusyOn(m, q), Queues)

JobWaiting(m) == SumOver(LAMBDA q : Len(entry_list[<<m, q>>]), Queues)

\* This step disposes of an entry of job m; it creates one.
JobEntryDone(m) ==
    \E e \in 1..Len(entries) :
        entries[e].live /\ entries[e].message = m /\ ~entries'[e].live

JobEntryCreated(m) ==
    /\ Len(entries') = Len(entries) + 1
    /\ entries'[Len(entries')].message = m

\* selected_entries minus the busy entries: the entries disposed of.
JobDisposed(m) == selected_entries[m] - JobBusy(m)

\* selected_entries plus the waiting entries: the entries ever created.
JobCreated(m) == selected_entries[m] + JobWaiting(m)

\* A step that leaves the entries, the lists and the counts alone changes
\* none of the numbers; for any other step they are counted.
JobUntouched ==
    /\ entries' = entries
    /\ busy' = busy
    /\ entry_list' = entry_list
    /\ selected_entries' = selected_entries

JobCountsStep(m) ==
    \/ JobUntouched
    \/ /\ JobDisposed(m)' = JobDisposed(m) + (IF JobEntryDone(m) THEN 1 ELSE 0)
       /\ JobCreated(m)' = JobCreated(m) + (IF JobEntryCreated(m) THEN 1 ELSE 0)

\* C34: for every job, selected_entries is the number of its entries on busy
\* lists plus the number of its entries that qmgr_entry_done disposed of (a
\* todo entry disposed of counts as selected), and selected_entries plus the
\* entries on its peers' entry lists is the number of entries ever created
\* for the job: both start at zero and grow by one with each entry disposed
\* of and created.
C34_SelectedEntries ==
    /\ \A m \in Messages : JobDisposed(m) = 0 /\ JobCreated(m) = 0
    /\ [](\A m \in Messages : JobBusy(m) + JobWaiting(m) = Cardinality(EntriesOf(m)))
    /\ [][\A m \in Messages : JobCountsStep(m)]_vars

\* A job with an entry disposed of from the todo list, one on a busy list and
\* none waiting.
C34_Witness ==
    \E m \in Messages :
        /\ selected_entries[m] = 2
        /\ JobBusy(m) = 1
        /\ JobWaiting(m) = 0
        /\ done_obs # <<>>

\* This step is a panic of the queue manager.
PanicStep == panic = "" /\ panic' # ""

\* This step is a qmgr_entry_done that breaks the interface.
DoneMisused ==
    \/ \E e \in LiveEntries : QmgrDoneBadSpec(e)
    \/ \E e \in LiveEntries, which \in {QMGR_QUEUE_BUSY, QMGR_QUEUE_TODO} :
          entries[e].stream /\ QmgrDone(e, which)

PanicTexts ==
    {"qmgr_entry_done: file is open", "qmgr_entry_done: bad queue spec"}

\* C35: qmgr_entry_create for a queue with window 0 panics, qmgr_entry_done
\* with an open delivery stream or with a queue spec other than
\* QMGR_QUEUE_BUSY and QMGR_QUEUE_TODO panics, and a panic leaves every
\* entry, list and count as it was before the call.
C35_PanicChangesNothing ==
    [][/\ PanicStep => Cur' = [Cur EXCEPT !.panic = panic']
       /\ DoneMisused => panic' \in PanicTexts
       /\ (\E m \in Messages, q \in Queues : QmgrCreateDead(m, q))
             => panic' = "qmgr_entry_create: dead queue"]_vars

\* qmgr_entry_done has refused an entry with an open stream: the entry is
\* still live and on its busy list.
C35_Witness ==
    /\ panic = "qmgr_entry_done: file is open"
    /\ \E e \in LiveEntries :
          /\ entries[e].stream
          /\ OnList(busy[entries[e].queue], e)
          /\ busy_refcount[entries[e].queue] = Len(busy[entries[e].queue])

(***************************************************************************)
(* Part 2.  mail_stream.c                                                  *)
(*                                                                         *)
(* Queue files written through mail_stream_file().  The results of the     *)
(* system calls that mail_stream_finish_file() makes are inputs.           *)
(***************************************************************************)

StreamFiles == {"f1", "f2", "f3"}

\* The permissions of mail_queue_enter(queue, 0600) and fchmod(fd, 0700).
Mode0600 == 384
Mode0700 == 448

CLEANUP_STAT_OK == "CLEANUP_STAT_OK"
CLEANUP_STAT_WRITE == "CLEANUP_STAT_WRITE"
NotFinished == "none"

\* Any of the execute bits S_IXUSR, S_IXGRP, S_IXOTH.
HasExecuteBit(mode) ==
    \/ (mode \div 64) % 2 = 1
    \/ (mode \div 8) % 2 = 1
    \/ mode % 2 = 1

SCur ==
    [has_fsync |-> has_fsync, ms_file |-> ms_file, ms_stream |-> ms_stream,
     ms_status |-> ms_status, ms_calls |-> ms_calls]

SBecomes(s) ==
    /\ has_fsync' = s.has_fsync
    /\ ms_file' = s.ms_file
    /\ ms_stream' = s.ms_stream
    /\ ms_status' = s.ms_status
    /\ ms_calls' = s.ms_calls
    /\ UNCHANGED notsvars

\* mail_stream_cleanup - clean up after success or failure
mail_stream_cleanup(s, f) ==
    [s EXCEPT !.ms_stream[f] = "closed"]

\* mail_stream_finish_file, lines 127-133: flush, set the execute bit, sync.
\* The calls are made left to right until one fails.
FinishFileWrite(s, f, flush_ok, fchmod_ok, fsync_ok) ==
    LET s1 == [s EXCEPT !.ms_calls[f] = Append(@, "vstream_fflush")]
        s2 == [s1 EXCEPT !.ms_calls[f] = Append(@, "fchmod"),
                         !.ms_file[f].mode =
                             IF fchmod_ok THEN Mode0700 ELSE @]
        s3 == [s2 EXCEPT !.ms_calls[f] = Append(@, "fsync")]
    IN  IF ~flush_ok THEN [s1 EXCEPT !.ms_status[f] = CLEANUP_STAT_WRITE]
        ELSE IF ~fchmod_ok THEN [s2 EXCEPT !.ms_status[f] = CLEANUP_STAT_WRITE]
        ELSE IF ~s.has_fsync THEN s2
        ELSE IF ~fsync_ok THEN [s3 EXCEPT !.ms_status[f] = CLEANUP_STAT_WRITE]
        ELSE s3

\* mail_stream_finish_file, lines 143-145: close the queue file.
FinishFileClose(s, f, close_ok) ==
    [s EXCEPT !.ms_calls[f] = Append(@, "vstream_fclose"),
              !.ms_stream[f] = "closed",
              !.ms_status[f] = IF close_ok THEN @ ELSE CLEANUP_STAT_WRITE]

\* A finish that notifies the next service whatever the status is.
FinishFileTrigger_always(s, f) ==
    [s EXCEPT !.ms_calls[f] = Append(@, "mail_trigger")]

\* mail_stream_finish_file, lines 151-152: notify the next service.
FinishFileTrigger(s, f) ==
    IF s.ms_status[f] = CLEANUP_STAT_OK
    THEN [s EXCEPT !.ms_calls[f] = Append(@, "mail_trigger")]
    ELSE s

\* mail_stream_finish_file - finish file mail stream
mail_stream_finish_file(s, f, flush_ok, fchmod_ok, fsync_ok, close_ok) ==
    LET s0 == [s EXCEPT !.ms_status[f] = CLEANUP_STAT_OK] IN
    mail_stream_cleanup(
        FinishFileTrigger(
            FinishFileClose(
                FinishFileWrite(s0, f, flush_ok, fchmod_ok, fsync_ok),
                f, close_ok),
            f),
        f)

\* mail_stream_file - destination is file
mail_stream_file(s, f) ==
    [s EXCEPT !.ms_file[f] = [exists |-> TRUE, mode |-> Mode0600],
              !.ms_stream[f] = "open"]

SInit ==
    /\ has_fsync \in BOOLEAN
    /\ ms_file = [f \in StreamFiles |-> [exists |-> FALSE, mode |-> 0]]
    /\ ms_stream = [f \in StreamFiles |-> "none"]
    /\ ms_status = [f \in StreamFiles |-> NotFinished]
    /\ ms_calls = [f \in StreamFiles |-> <<>>]

\* A client opens a new queue file.
StreamFile(f) ==
    /\ ms_stream[f] = "none"
    /\ SBecomes(mail_stream_file(SCur, f))

\* The client completes the request: mail_stream_finish().
StreamFinish(f, flush_ok, fchmod_ok, fsync_ok, close_ok) ==
    /\ ms_stream[f] = "open"
    /\ SBecomes(mail_stream_finish_file(SCur, f, flush_ok, fchmod_ok,
                                        fsync_ok, close_ok))

\* The client gives up the request: mail_stream_cleanup().
StreamCleanup(f) ==
    /\ ms_stream[f] = "open"
    /\ SBecomes(mail_stream_cleanup(SCur, f))

SNext ==
    \/ \E f \in StreamFiles : StreamFile(f)
    \/ \E f \in StreamFiles, flush_ok \in BOOLEAN, fchmod_ok \in BOOLEAN,
          fsync_ok \in BOOLEAN, close_ok \in BOOLEAN :
          StreamFinish(f, flush_ok, fchmod_ok, fsync_ok, close_ok)
    \/ \E f \in StreamFiles : StreamCleanup(f)

(***************************************************************************)
(* Properties of part 2.                                                   *)
(***************************************************************************)

\* C10 as stated: a queue file has an execute bit only if
\* mail_stream_finish returned CLEANUP_STAT_OK for it: a finish that reports
\* a write error leaves the file without the commit bit.
C10_ExecuteBitOnlyIfOk ==
    \A f \in StreamFiles :
        (ms_file[f].exists /\ HasExecuteBit(ms_file[f].mode))
            => ms_status[f] = CLEANUP_STAT_OK

Triggered(calls) == \E i \in 1..Len(calls) : calls[i] = "mail_trigger"

\* The calls of a finish in which every step succeeds, in their order.
FinishCallsOk ==
    IF has_fsync
    THEN <<"vstream_fflush", "fchmod", "fsync", "vstream_fclose",
           "mail_trigger">>
    ELSE <<"vstream_fflush", "fchmod", "vstream_fclose", "mail_trigger">>

\* C11: mail_stream_finish on a file stream sends the wakeup trigger if and
\* only if its result is CLEANUP_STAT_OK, which is the case if and only if
\* the flush, the fchmod, the fsync (where the build has it) and the close
\* all succeeded; the trigger is the last call, made once, after the file
\* was flushed, given mode 0700 and closed.
C11_TriggerIffOk ==
    [][\A f \in StreamFiles, flush_ok \in BOOLEAN, fchmod_ok \in BOOLEAN,
          fsync_ok \in BOOLEAN, close_ok \in BOOLEAN :
          StreamFinish(f, flush_ok, fchmod_ok, fsync_ok, close_ok) =>
              LET all_ok == /\ flush_ok
                            /\ fchmod_ok
                            /\ (has_fsync => fsync_ok)
                            /\ close_ok
              IN  /\ Triggered(ms_calls'[f]) <=> ms_status'[f] = CLEANUP_STAT_OK
                  /\ Triggered(ms_calls'[f]) <=> all_ok
                  /\ ms_status'[f] \in {CLEANUP_STAT_OK, CLEANUP_STAT_WRITE}
                  /\ Triggered(ms_calls'[f]) =>
                        /\ ms_calls'[f] = FinishCallsOk
                        /\ ms_file'[f].mode = Mode0700
                        /\ ms_stream'[f] = "closed"]_vars

\* One finish has sent the trigger and another one, whose close failed after
\* everything else went well, has not.
C11_Witness ==
    \E f, g \in StreamFiles :
        /\ ms_status[f] = CLEANUP_STAT_OK
        /\ Triggered(ms_calls[f])
        /\ ms_status[g] = CLEANUP_STAT_WRITE
        /\ ms_calls[g][Len(ms_calls[g])] = "vstream_fclose"
        /\ ms_file[g].mode = Mode0700

(***************************************************************************)
(* Part 3.  cleanup_map11.c and cleanup_map1n.c                            *)
(*                                                                         *)
(* One call of cleanup_map11_external() or of cleanup_map1n_internal().    *)
(* A step is one pass through the routine's loop: one mail_addr_map()      *)
(* call with what the routine does with its result, or one of the limit    *)
(* tests that ends a loop.  The tables and the address are the inputs;     *)
(* whether a lookup fails with dict_errno set is decided at each lookup.   *)
(***************************************************************************)

\* cleanup_map11.c: #define MAX_RECURSION 10
MAX_RECURSION == 10

\* cleanup_map1n.c: #define MAX_RECURSION 1000, #define MAX_EXPANSION 1000
MAP1N_MAX_RECURSION == 1000
MAX_EXPANSION == 1000

\* The addresses of the model: a name, the same name in upper case, another
\* name, and the first name with its local part quoted.
MapAddrs == {"a", "A", "b", "\"a\""}

\* The keys of the tables: lookup keys are folded to lower case.
MapKeys == {"a", "b"}

\* The entry of a key: none (the empty sequence), one value or two values.
MapValues ==
    {<<>>} \cup {<<v>> : v \in MapAddrs}
           \cup {<<v, w>> : v \in MapAddrs, w \in MapAddrs}

\* Case folding, as strcasecmp() does before it compares.
Lower(str) == IF str = "A" THEN "a" ELSE str

strcasecmp(x, y) == IF Lower(x) = Lower(y) THEN 0 ELSE 1

\* unquote_822_local - the internal form of an address in external form
unquote_822_local(str) == IF str = "\"a\"" THEN "a" ELSE str

\* mail_addr_map - the values of the table entry of an address; the empty
\* sequence stands for the null result.
mail_addr_map(maps, address) ==
    IF Lower(address) \in DOMAIN maps THEN maps[Lower(address)] ELSE <<>>

CCur ==
    [cm_maps |-> cm_maps, cm_pc |-> cm_pc, cm_addr |-> cm_addr,
     cm_argv |-> cm_argv, cm_arg |-> cm_arg, cm_count |-> cm_count,
     cleanup_errs |-> cleanup_errs, cm_warn |-> cm_warn,
     cm_lookups |-> cm_lookups, cm_last |-> cm_last]

CBecomes(s) ==
    /\ cm_maps' = s.cm_maps
    /\ cm_pc' = s.cm_pc
    /\ cm_addr' = s.cm_addr
    /\ cm_argv' = s.cm_argv
    /\ cm_arg' = s.cm_arg
    /\ cm_count' = s.cm_count
    /\ cleanup_errs' = s.cleanup_errs
    /\ cm_warn' = s.cm_warn
    /\ cm_lookups' = s.cm_lookups
    /\ cm_last' = s.cm_last
    /\ UNCHANGED notcvars

msg_warn(s, text) == [s EXCEPT !.cm_warn = Append(@, text)]

\* What a mail_addr_map() call leaves behind: one more lookup, and its record.
Looked(s, address, values, dict_error) ==
    [s EXCEPT !.cm_lookups = @ + 1,
              !.cm_last = <<[lhs |-> address, values |-> values,
                             dict_errno |-> dict_error]>>]

\* cleanup_map11_external, lines 104-122: the body of the loop.
Map11Body_keep_going(s, dict_error) ==
    LET new_addr == IF dict_error THEN <<>>
                    ELSE mail_addr_map(s.cm_maps, s.cm_addr)
        s1 == Looked(s, s.cm_addr, new_addr, dict_error)
    IN  IF new_addr # <<>> THEN
            LET s2 == IF Len(new_addr) > 1
                      THEN msg_warn(s1, "multi-valued entry") ELSE s1
                s3 == [s2 EXCEPT !.cm_addr = new_addr[1]]
            IN  IF strcasecmp(s.cm_addr, s3.cm_addr) = 0
                THEN [s3 EXCEPT !.cm_pc = "map11_return"]
                ELSE [s3 EXCEPT !.cm_count = @ + 1]
        ELSE IF dict_error THEN
            [msg_warn(s1, "map lookup problem")
                EXCEPT !.cleanup_errs = @ \cup {CLEANUP_STAT_WRITE},
                       !.cm_count = @ + 1]
        ELSE [s1 EXCEPT !.cm_pc = "map11_return"]

Map11Body(s, dict_error) ==
    LET new_addr == IF dict_error THEN <<>>
                    ELSE mail_addr_map(s.cm_maps, s.cm_addr)
        s1 == Looked(s, s.cm_addr, new_addr, dict_error)
    IN  IF new_addr # <<>> THEN
            LET s2 == IF Len(new_addr) > 1
                      THEN msg_warn(s1, "multi-valued entry") ELSE s1
                s3 == [s2 EXCEPT !.cm_addr = new_addr[1]]
            IN  IF strcasecmp(s.cm_addr, s3.cm_addr) = 0
                THEN [s3 EXCEPT !.cm_pc = "map11_return"]
                ELSE [s3 EXCEPT !.cm_count = @ + 1]
        ELSE IF dict_error THEN
            [msg_warn(s1, "map lookup problem")
                EXCEPT !.cleanup_errs = @ \cup {CLEANUP_STAT_WRITE},
                       !.cm_pc = "map11_return"]
        ELSE [s1 EXCEPT !.cm_pc = "map11_return"]

\* cleanup_map11_external, line 103: the loop test.
Map11More_eleven(s) == s.cm_count <= MAX_RECURSION

Map11More(s) == s.cm_count < MAX_RECURSION

\* cleanup_map11_external, lines 124-125: the loop ran out.
Map11Nesting(s) ==
    [msg_warn(s, "unreasonable map nesting") EXCEPT !.cm_pc = "map11_return"]

\* cleanup_map11_external - one-to-one table lookups: the call.
cleanup_map11_external(s, addr) ==
    [s EXCEPT !.cm_pc = "map11", !.cm_addr = addr, !.cm_count = 0]

\* cleanup_map1n_internal, lines 108-110: the left-hand side appears in its
\* own expansion.
Map1nSelf_first_value(saved_lhs, lookup) ==
    strcasecmp(saved_lhs, unquote_822_local(lookup[1])) = 0

Map1nSelf(saved_lhs, lookup) ==
    \E i \in 1..Len(lookup) :
        strcasecmp(saved_lhs, unquote_822_local(lookup[i])) = 0

\* cleanup_map1n_internal, lines 107-117: the first value replaces the slot,
\* the other values are added at the end.
Map1nUpdate_insert(argv, arg, lookup) ==
    LET temp == [i \in 1..Len(lookup) |-> unquote_822_local(lookup[i])]
    IN  SubSeq(argv, 1, arg) \o temp \o SubSeq(argv, arg + 2, Len(argv))

Map1nUpdate(argv, arg, lookup) ==
    LET temp == [i \in 1..Len(lookup) |-> unquote_822_local(lookup[i])]
    IN  [argv EXCEPT ![arg + 1] = temp[1]] \o Tail(temp)

\* cleanup_map1n_internal, lines 105-129: the body of the inner loop.
Map1nBody(s, dict_error) ==
    LET saved_lhs == s.cm_argv[s.cm_arg + 1]
        lookup == IF dict_error THEN <<>>
                  ELSE mail_addr_map(s.cm_maps, saved_lhs)
        s1 == Looked(s, saved_lhs, lookup, dict_error)
    IN  IF lookup # <<>> THEN
            LET s2 == [s1 EXCEPT !.cm_argv = Map1nUpdate(@, s.cm_arg, lookup)]
            IN  IF Map1nSelf(saved_lhs, lookup)
                THEN [s2 EXCEPT !.cm_pc = "map1n_return"]
                ELSE [s2 EXCEPT !.cm_count = @ + 1]
        ELSE IF dict_error THEN
            [msg_warn(s1, "map lookup problem")
                EXCEPT !.cleanup_errs = @ \cup {CLEANUP_STAT_WRITE},
                       !.cm_pc = "map1n_return"]
        ELSE [s1 EXCEPT !.cm_arg = @ + 1, !.cm_count = 0]

\* Variant of line 93 with a slip: the slots added to the list are not
\* visited.
Map1nMore_first_slot(s) == s.cm_arg < 1

\* cleanup_map1n_internal, line 93: the test of the outer loop.
Map1nMore(s) == s.cm_arg < Len(s.cm_argv)

\* cleanup_map1n_internal, line 94: the test made when a slot is entered.
Map1nTooLong(s) == s.cm_count = 0 /\ Len(s.cm_argv) > MAX_EXPANSION

\* cleanup_map1n_internal, line 100: the test of the inner loop.
Map1nTooDeep(s) == s.cm_count >= MAP1N_MAX_RECURSION

\* cleanup_map1n_internal, lines 95-97: warn and leave the outer loop, to
\* the return of line 132.
Map1nExpansion(s) ==
    [msg_warn(s, "unreasonable map expansion size") EXCEPT !.cm_pc = "map1n_return"]

\* cleanup_map1n_internal, lines 101-103: warn and leave the inner loop, to
\* the next slot.
Map1nNesting(s) ==
    [msg_warn(s, "unreasonable map nesting")
        EXCEPT !.cm_arg = @ + 1, !.cm_count = 0]

\* cleanup_map1n_internal, lines 77-79 and 93: the call.
cleanup_map1n_internal(s, addr) ==
    [s EXCEPT !.cm_pc = "map1n", !.cm_argv = <<addr>>, !.cm_arg = 0,
              !.cm_count = 0]

\* No call yet, for the tables given.
CInitWith(maps) ==
    /\ cm_maps = maps
    /\ cm_pc = "idle"
    /\ cm_addr = ""
    /\ cm_argv = <<>>
    /\ cm_arg = 0
    /\ cm_count = 0
    /\ cleanup_errs = {}
    /\ cm_warn = <<>>
    /\ cm_lookups = 0
    /\ cm_last = <<>>

CInit == \E maps \in [MapKeys -> MapValues] : CInitWith(maps)

\* The cleanup service maps an address in external form.
CleanupMap11(addr) ==
    /\ cm_pc = "idle"
    /\ CBecomes(cleanup_map11_external(CCur, addr))

Map11Lookup(dict_error) ==
    /\ cm_pc = "map11"
    /\ Map11More(CCur)
    /\ CBecomes(Map11Body(CCur, dict_error))

Map11Limit ==
    /\ cm_pc = "map11"
    /\ ~Map11More(CCur)
    /\ CBecomes(Map11Nesting(CCur))

\* The cleanup service expands an address in internal form.
CleanupMap1n(addr) ==
    /\ cm_pc = "idle"
    /\ CBecomes(cleanup_map1n_internal(CCur, addr))

Map1nReturn ==
    /\ cm_pc = "map1n"
    /\ ~Map1nMore(CCur)
    /\ CBecomes([CCur EXCEPT !.cm_pc = "map1n_return"])

Map1nExpansionLimit ==
    /\ cm_pc = "map1n"
    /\ Map1nMore(CCur)
    /\ Map1nTooLong(CCur)
    /\ CBecomes(Map1nExpansion(CCur))

Map1nNestingLimit ==
    /\ cm_pc = "map1n"
    /\ Map1nMore(CCur)
    /\ ~Map1nTooLong(CCur)
    /\ Map1nTooDeep(CCur)
    /\ CBecomes(Map1nNesting(CCur))

Map1nLookup(dict_error) ==
    /\ cm_pc = "map1n"
    /\ Map1nMore(CCur)
    /\ ~Map1nTooLong(CCur)
    /\ ~Map1nTooDeep(CCur)
    /\ CBecomes(Map1nBody(CCur, dict_error))

CNext ==
    \/ \E addr \in MapAddrs : CleanupMap11(addr)
    \/ \E dict_error \in BOOLEAN : Map11Lookup(dict_error)
    \/ Map11Limit
    \/ \E addr \in MapAddrs \ {"\"a\""} : CleanupMap1n(addr)
    \/ Map1nReturn
    \/ Map1nExpansionLimit
    \/ Map1nNestingLimit
    \/ \E dict_error \in BOOLEAN : Map1nLookup(dict_error)

(***************************************************************************)
(* Properties of part 3.                                                   *)
(***************************************************************************)

Warned(text) == \E i \in 1..Len(cm_warn) : cm_warn[i] = text

\* The address has no table entry, or its entry maps it onto itself.
FixedPoint(maps, address) ==
    LET entry == mail_addr_map(maps, address)
    IN  entry = <<>> \/ Lower(entry[1]) = Lower(address)

\* C12: cleanup_map11_external makes at most 10 table lookups in a call,
\* whatever the tables hold; when it returns after 10 lookups that each
\* rewrote the address to a different one, it has logged the nesting warning
\* and the address is the result of the 10th lookup.
C12_Map11TenLookups ==
    /\ cm_pc \in {"map11", "map11_return"} => cm_lookups <= 10
    /\ (cm_pc = "map11_return" /\ cm_count = 10) =>
          /\ cm_lookups = 10
          /\ Warned("unreasonable map nesting")
          /\ cm_addr = cm_last[1].values[1]
    /\ (cm_pc = "map11_return" /\ Warned("unreasonable map nesting")) =>
          cm_count = 10

\* A cyclic mapping a -> b -> a has been followed through all 10 lookups.
C12_Witness ==
    /\ cm_pc = "map11_return"
    /\ cm_lookups = 10
    /\ Warned("unreasonable map nesting")
    /\ cm_maps["a"] = <<"b">>
    /\ cm_maps["b"] = <<"a">>

\* C13 as stated: whenever cleanup_map11_external returns, the address is a
\* fixed point of the mapping or the recoverable-error flag is set in
\* cleanup_errs.
C13_FixedPointOrFlagged ==
    cm_pc = "map11_return" =>
        \/ FixedPoint(cm_maps, cm_addr)
        \/ CLEANUP_STAT_WRITE \in cleanup_errs

\* C14: a lookup that fails with dict_errno set makes cleanup_map11_external
\* and cleanup_map1n_internal set the recoverable-error flag and return in
\* that same step, with the address and the address list as they were
\* before the lookup; after the return there is no further lookup.
C14_LookupErrorReturns ==
    [][/\ (Map11Lookup(TRUE) \/ Map1nLookup(TRUE)) =>
            /\ CLEANUP_STAT_WRITE \in cleanup_errs'
            /\ cm_pc' \in {"map11_return", "map1n_return"}
            /\ cm_addr' = cm_addr
            /\ cm_argv' = cm_argv
            /\ cm_lookups' = cm_lookups + 1
       /\ cm_pc \in {"map11_return", "map1n_return"} =>
            cm_lookups' = cm_lookups
       /\ CLEANUP_STAT_WRITE \in cleanup_errs =>
            cm_lookups' = cm_lookups]_vars

\* A lookup failed after earlier lookups had expanded the list.
C14_Witness ==
    /\ cm_pc = "map1n_return"
    /\ CLEANUP_STAT_WRITE \in cleanup_errs
    /\ cm_last[1].dict_errno
    /\ cm_lookups >= 3
    /\ Len(cm_argv) >= 2

\* C15 as stated: the list that cleanup_map1n_internal returns has at most
\* 1000 addresses, and no slot is rewritten by more than 1000 successive
\* lookups.
C15_ListAtMostThousand ==
    /\ cm_pc = "map1n_return" => Len(cm_argv) <= 1000
    /\ cm_pc \in {"map1n", "map1n_return"} => cm_count <= 1000

CapWarned ==
    \/ Warned("unreasonable map nesting")
    \/ Warned("unreasonable map expansion size")

\* C16 as stated: when a cap of cleanup_map1n_internal is exceeded it logs a
\* warning, and from then on it makes no table lookup and returns the list
\* as it stands, with everything rewritten or appended so far.
C16_CapReturnsAtOnce ==
    [][/\ (Map1nNestingLimit \/ Map1nExpansionLimit) =>
            (CapWarned' /\ cm_argv' = cm_argv)
       /\ (cm_pc = "map1n" /\ CapWarned) =>
            (cm_lookups' = cm_lookups /\ cm_argv' = cm_argv)]_vars

\* C17: when the result of a lookup contains the looked-up address itself
\* (case-insensitive, the values taken in unquoted form),
\* cleanup_map1n_internal returns in that step, with the first value in the
\* slot and the other values appended, and makes no further lookup.
C17_SelfExpansionReturns ==
    [][/\ Map1nLookup(FALSE) =>
            LET lhs == cm_argv[cm_arg + 1]
                values == mail_addr_map(cm_maps, lhs)
                n == Len(values)
            IN  (\E i \in 1..n :
                     Lower(unquote_822_local(values[i])) = Lower(lhs)) =>
                    /\ cm_pc' = "map1n_return"
                    /\ Len(cm_argv') = Len(cm_argv) + n - 1
                    /\ cm_argv'[cm_arg + 1] = unquote_822_local(values[1])
                    /\ \A i \in 2..n :
                           cm_argv'[Len(cm_argv) + i - 1] =
                               unquote_822_local(values[i])
       /\ cm_pc = "map1n_return" => cm_lookups' = cm_lookups]_vars

\* The second value of a later lookup is the looked-up address in quotes;
\* the first value is another address.
C17_Witness ==
    /\ cm_pc = "map1n_return"
    /\ cleanup_errs = {}
    /\ cm_lookups >= 2
    /\ Len(cm_last[1].values) = 2
    /\ Lower(unquote_822_local(cm_last[1].values[1])) # Lower(cm_last[1].lhs)
    /\ cm_last[1].values[2] # unquote_822_local(cm_last[1].values[2])
    /\ Lower(unquote_822_local(cm_last[1].values[2])) = Lower(cm_last[1].lhs)

\* C18: a successful lookup for slot k with the values v1..vn puts v1 (in
\* internal form) in slot k and adds v2..vn, in that order, at the end of
\* the list; every other slot keeps its value and its position.  No step
\* makes the list shorter or changes a slot other than the current one.
C18_ReplaceAndAppend ==
    [][/\ Map1nLookup(FALSE) =>
            LET k == cm_arg + 1
                values == mail_addr_map(cm_maps, cm_argv[k])
                n == Len(values)
            IN  n > 0 =>
                    /\ Len(cm_argv') = Len(cm_argv) + n - 1
                    /\ cm_argv'[k] = unquote_822_local(values[1])
                    /\ \A i \in 2..n :
                           cm_argv'[Len(cm_argv) + i - 1] =
                               unquote_822_local(values[i])
       /\ cm_pc = "map1n" =>
            /\ Len(cm_argv') >= Len(cm_argv)
            /\ \A j \in 1..Len(cm_argv) :
                   j # cm_arg + 1 => cm_argv'[j] = cm_argv[j]]_vars

\* A two-valued result, one of its values quoted, has been put into the
\* first slot of a list that already had a second slot.
C18_Witness ==
    /\ cm_pc = "map1n"
    /\ cm_arg = 0
    /\ cm_count = 2
    /\ Len(cm_argv) = 3
    /\ Len(cm_last[1].values) = 2
    /\ \E i \in 1..2 :
           cm_last[1].values[i] # unquote_822_local(cm_last[1].values[i])

(***************************************************************************)
(* Tables over three names whose entries lead forward: the entry of a name *)
(* has that name or later ones.  Every expansion comes to an end, by a     *)
(* name without entry, by a name in its own entry or by a failed lookup;   *)
(* the caps are out of reach.                                               *)
(***************************************************************************)

ChainAddrs == <<"a", "b", "c">>

ChainValues(k) ==
    LET later == {ChainAddrs[i] : i \in k..Len(ChainAddrs)}
    IN  {<<>>} \cup {<<v>> : v \in later}
               \cup {<<v, w>> : v \in later, w \in later}

ChainMaps ==
    {maps \in [{"a", "b", "c"} -> ChainValues(1)] :
        \A k \in 1..Len(ChainAddrs) : maps[ChainAddrs[k]] \in ChainValues(k)}

CChainInit == \E maps \in ChainMaps : CInitWith(maps)

CChainNext ==
    \/ \E addr \in {"a", "b", "c"} : CleanupMap1n(addr)
    \/ Map1nReturn
    \/ \E dict_error \in BOOLEAN : Map1nLookup(dict_error)

\* The last lookup of the call gave a result with the looked-up address in it.
SelfReturned ==
    /\ cm_last # <<>>
    /\ cm_last[1].values # <<>>
    /\ Map1nSelf(cm_last[1].lhs, cm_last[1].values)

\* C36: when cleanup_map1n_internal returns without a cap warning, without
\* a self-reference and without a lookup error, no address of the returned
\* list, the appended ones included, has an entry in the table.
C36_ReturnedAreUnmapped ==
    (/\ cm_pc = "map1n_return"
     /\ ~CapWarned
     /\ ~SelfReturned
     /\ cleanup_errs = {}) =>
        \A i \in 1..Len(cm_argv) : mail_addr_map(cm_maps, cm_argv[i]) = <<>>

\* The call for "a" has returned <<"c", "c">>: the second value of the entry
\* of "a" was appended as "b" and rewritten when its slot was visited.
C36_Witness ==
    /\ cm_pc = "map1n_return"
    /\ ~CapWarned
    /\ ~SelfReturned
    /\ cleanup_errs = {}
    /\ cm_maps["a"] = <<"c", "b">>
    /\ cm_maps["b"] = <<"c">>
    /\ cm_argv = <<"c", "c">>
    /\ cm_lookups = 4

(***************************************************************************)
(* Part 4.  smtp_addr.c                                                    *)
(*                                                                         *)
(* smtp_domain_addr() for one domain.  What the DNS answers, the host's    *)
(* own addresses and the configuration are the inputs of a call.  A list   *)
(* of resource records is a sequence; the null list is the empty sequence. *)
(***************************************************************************)

\* #define IMPOSSIBLE_PREFERENCE (~0): all bits set, written here as the
\* two's complement number with that pattern; preferences from the DNS are
\* 0..65535.
IMPOSSIBLE_PREFERENCE == -1

\* #define PREF0 0
PREF0 == 0

DNS_OK == "DNS_OK"
DNS_NOTFOUND == "DNS_NOTFOUND"
DNS_FAIL == "DNS_FAIL"
DNS_RETRY == "DNS_RETRY"

SMTP_OK == "SMTP_OK"
SMTP_RETRY == "SMTP_RETRY"
SMTP_FAIL == "SMTP_FAIL"

\* The domain looked up, and the hosts that its MX records may name; one of
\* them is written as a numerical address.
SmtpDomain == "example.com"
MxHosts == {"mx1", "mx2", "192.0.2.1"}
MxPrefs == {10, 20, 30}

\* own_inet_addr_list(): the addresses this mail system listens on.
OwnAddrs == <<"self1", "self2">>

\* host[0] is a digit and inet_addr() accepts the name.
IsNumeric(host) == host = "192.0.2.1"

\* What an address lookup for a name may answer.
AAnswers ==
    {[rc |-> DNS_OK, addrs |-> <<"self1">>],
     [rc |-> DNS_OK, addrs |-> <<"other">>],
     [rc |-> DNS_OK, addrs |-> <<"other", "self2">>],
     [rc |-> DNS_NOTFOUND, addrs |-> <<>>],
     [rc |-> DNS_FAIL, addrs |-> <<>>],
     [rc |-> DNS_RETRY, addrs |-> <<>>]}

NoAnswer == [rc |-> DNS_NOTFOUND, addrs |-> <<>>]

\* The MX records that an MX lookup may answer, in the order of the answer:
\* up to three records for different hosts.
MxAnswers ==
    {<<>>}
    \cup {<<[name |-> h, pref |-> p]>> : h \in MxHosts, p \in MxPrefs}
    \cup {<<r1, r2>> : r1 \in [name : MxHosts, pref : MxPrefs],
                       r2 \in [name : MxHosts, pref : MxPrefs]}
    \cup {<<r1, r2, r3>> : r1 \in [name : MxHosts, pref : MxPrefs],
                           r2 \in [name : MxHosts, pref : MxPrefs],
                           r3 \in [name : MxHosts, pref : MxPrefs]}

\* smtp_compare_mx - compare resource records by preference
smtp_compare_mx(a, b) == a.pref - b.pref

\* dns_rr_sort(list, smtp_compare_mx) - sort resource records: each record
\* is put after the records that do not compare greater.
RECURSIVE dns_rr_insert(_, _)
dns_rr_insert(list, rr) ==
    IF list = <<>> THEN <<rr>>
    ELSE IF smtp_compare_mx(rr, Head(list)) < 0 THEN <<rr>> \o list
    ELSE <<Head(list)>> \o dns_rr_insert(Tail(list), rr)

RECURSIVE dns_rr_sort(_)
dns_rr_sort(list) ==
    IF list = <<>> THEN <<>>
    ELSE dns_rr_insert(dns_rr_sort(SubSeq(list, 1, Len(list) - 1)),
                       list[Len(list)])

\* The position of the first address of the list that is one of this
\* system's, or 0.
smtp_find_self_first(addr_list) ==
    LET mine == {k \in 1..Len(addr_list) :
                    \E i \in 1..Len(OwnAddrs) :
                        addr_list[k].data = OwnAddrs[i]}
    IN  IF mine = {} THEN 0
        ELSE CHOOSE k \in mine : \A j \in mine : k <= j

\* smtp_addr_one - address lookup for one host name.  r holds the address
\* list, smtp_errno and why.
smtp_addr_one(r, host, pref, dns) ==
    IF IsNumeric(host) THEN
        [r EXCEPT !.addr_list =
            Append(@, [name |-> host, pref |-> pref, data |-> host])]
    ELSE
        LET answer == dns.a[host] IN
        CASE answer.rc = DNS_OK ->
                [r EXCEPT !.addr_list = @ \o
                    [i \in 1..Len(answer.addrs) |->
                        [name |-> host, pref |-> pref,
                         data |-> answer.addrs[i]]]]
          [] answer.rc \in {DNS_NOTFOUND, DNS_FAIL} ->
                [r EXCEPT !.smtp_errno = SMTP_FAIL, !.why = "dns_lookup"]
          [] OTHER ->
                [r EXCEPT !.smtp_errno = SMTP_RETRY, !.why = "dns_lookup"]

\* smtp_addr_list - address lookup for a list of mail exchangers
RECURSIVE smtp_addr_list(_, _, _)
smtp_addr_list(r, mx_names, dns) ==
    IF mx_names = <<>> THEN r
    ELSE smtp_addr_list(
             smtp_addr_one(r, Head(mx_names).name, Head(mx_names).pref, dns),
             Tail(mx_names), dns)

\* A direct lookup that cuts the list at the local host, as the MX branch
\* does.
smtp_host_addr_cut_at_self(r, host, dns) ==
    LET r1 == smtp_addr_one([r EXCEPT !.addr_list = <<>>], host, PREF0, dns)
        self == smtp_find_self_first(r1.addr_list)
    IN  IF self = 0 THEN r1
        ELSE [r1 EXCEPT !.self = self, !.addr_list = SubSeq(@, 1, self - 1)]

\* smtp_host_addr - direct host lookup
smtp_host_addr(r, host, dns) ==
    smtp_addr_one([r EXCEPT !.addr_list = <<>>], host, PREF0, dns)

\* smtp_find_self - spot myself in a crowd of mail exchangers: the position
\* of the first address that is one of this system's, or 0.
smtp_find_self(addr_list) ==
    LET mine == {k \in 1..Len(addr_list) :
                    \E i \in 1..Len(OwnAddrs) :
                        addr_list[k].data = OwnAddrs[i]}
    IN  IF mine = {} THEN 0
        ELSE CHOOSE k \in mine : \A j \in mine : k <= j

\* The list with only the records of the preference taken out.
smtp_truncate_self_equal_only(addr_list, pref) ==
    SelectSeq(addr_list, LAMBDA rr : rr.pref # pref)

\* smtp_truncate_self - truncate address list at self and equivalents
smtp_truncate_self(addr_list, pref) ==
    LET same == {k \in 1..Len(addr_list) : addr_list[k].pref = pref}
    IN  IF same = {} THEN addr_list
        ELSE SubSeq(addr_list, 1,
                    (CHOOSE k \in same : \A j \in same : k <= j) - 1)

\* A classification that asks for the best-MX transport first.
SmtpLoop_bestmx_first(r, best_pref, best_found, var_bestmx_transp) ==
    IF var_bestmx_transp # "" THEN
        [r EXCEPT !.smtp_errno = SMTP_OK]
    ELSE IF best_pref # best_found THEN
        [r EXCEPT !.smtp_errno = SMTP_RETRY,
                  !.why = "unable to find primary relay"]
    ELSE
        [r EXCEPT !.smtp_errno = SMTP_FAIL,
                  !.why = "mail loops back to myself"]

\* smtp_domain_addr, lines 350-362: nothing is left of the list.
SmtpLoop(r, best_pref, best_found, var_bestmx_transp) ==
    IF best_pref # best_found THEN
        [r EXCEPT !.smtp_errno = SMTP_RETRY,
                  !.why = "unable to find primary relay"]
    ELSE IF var_bestmx_transp # "" THEN
        [r EXCEPT !.smtp_errno = SMTP_OK]
    ELSE
        [r EXCEPT !.smtp_errno = SMTP_FAIL,
                  !.why = "mail loops back to myself"]

\* smtp_domain_addr, lines 335-365: the MX lookup succeeded.
SmtpDomainMx(r, dns, conf) ==
    LET mx_names == dns_rr_sort(dns.mx)
        best_pref == IF mx_names # <<>> THEN mx_names[1].pref
                     ELSE IMPOSSIBLE_PREFERENCE
        r1 == [smtp_addr_list(r, mx_names, dns) EXCEPT !.mx_names = mx_names]
        r2 == [r1 EXCEPT !.looked_up = r1.addr_list]
        best_found == r2.addr_list[1].pref
        self == smtp_find_self(r2.addr_list)
        r3 == [r2 EXCEPT !.self = self,
                         !.addr_list = smtp_truncate_self(
                                           @, r2.addr_list[self].pref)]
    IN  IF r1.addr_list = <<>> THEN [r1 EXCEPT !.smtp_errno = SMTP_RETRY]
        ELSE IF self = 0 THEN r2
        ELSE IF r3.addr_list = <<>>
             THEN SmtpLoop(r3, best_pref, best_found, conf.var_bestmx_transp)
        ELSE r3

\* smtp_domain_addr - mail exchanger address lookup.  The result holds the
\* list returned, smtp_errno, why and found_myself, and what the call saw on
\* its way: the sorted MX records, the addresses looked up, the place of self.
smtp_domain_addr(smtp_errno0, why0, dns, conf) ==
    LET r == [addr_list |-> <<>>, smtp_errno |-> smtp_errno0, why |-> why0,
              self |-> 0, mx_names |-> <<>>, looked_up |-> <<>>,
              found_myself |-> FALSE, panic |-> ""]
        r1 == CASE dns.mx_rc = DNS_OK -> SmtpDomainMx(r, dns, conf)
                [] dns.mx_rc = DNS_NOTFOUND ->
                       smtp_host_addr(r, SmtpDomain, dns)
                [] dns.mx_rc = DNS_FAIL ->
                       LET f == [r EXCEPT !.smtp_errno = SMTP_FAIL,
                                          !.why = "dns_lookup"]
                       IN  IF conf.var_ign_mx_lookup_err
                           THEN smtp_host_addr(f, SmtpDomain, dns) ELSE f
                [] OTHER ->
                       LET f == [r EXCEPT !.smtp_errno = SMTP_RETRY,
                                          !.why = "dns_lookup"]
                       IN  IF conf.var_ign_mx_lookup_err
                           THEN smtp_host_addr(f, SmtpDomain, dns) ELSE f
    IN  IF conf.var_disable_dns
        THEN [r EXCEPT !.panic = "smtp_domain_addr: DNS lookup is disabled"]
        ELSE [r1 EXCEPT !.found_myself = (r1.self # 0)]

SmtpIdleDns ==
    [mx_rc |-> DNS_NOTFOUND, mx |-> <<>>,
     a |-> [h \in MxHosts \cup {SmtpDomain} |-> NoAnswer]]

SmtpIdleConf ==
    [var_disable_dns |-> FALSE, var_ign_mx_lookup_err |-> FALSE,
     var_bestmx_transp |-> ""]

SmtpIdleResult ==
    [addr_list |-> <<>>, smtp_errno |-> SMTP_OK, why |-> "", self |-> 0,
     mx_names |-> <<>>, looked_up |-> <<>>, found_myself |-> FALSE,
     panic |-> ""]

\* No call yet; smtp_errno is as an earlier delivery attempt left it.
MInit ==
    /\ sm_dns = SmtpIdleDns
    /\ sm_conf = SmtpIdleConf
    /\ sm_r \in {[SmtpIdleResult EXCEPT !.smtp_errno = e] :
                    e \in {SMTP_OK, SMTP_RETRY, SMTP_FAIL}}
    /\ sm_called = FALSE

\* The names that a call asks the address of.
SmtpAsked(mx_rc, mx, ign) ==
    IF mx_rc = DNS_OK
    THEN {mx[i].name : i \in 1..Len(mx)} \ {h \in MxHosts : IsNumeric(h)}
    ELSE IF mx_rc = DNS_NOTFOUND \/ ign THEN {SmtpDomain}
    ELSE {}

\* The answers that matter: one only for a name that is not asked for.
SmtpAnswers(asked, h) == IF h \in asked THEN AAnswers ELSE {NoAnswer}

\* The SMTP client looks up where to deliver mail for the domain.
SmtpDomainAddr(dns, conf) ==
    /\ sm_dns' = dns
    /\ sm_conf' = conf
    /\ sm_r' = smtp_domain_addr(sm_r.smtp_errno, sm_r.why, dns, conf)
    /\ sm_called' = TRUE
    /\ UNCHANGED notmvars

\* The inputs of a call.  Parameters and answers that the call does not
\* look at have one value only.

\* The DNS lists MX records for the domain.
SmtpMxListed ==
    /\ ~sm_called
    /\ \E mx \in MxAnswers, var_bestmx_transp \in {"", "local"} :
         \E a1 \in SmtpAnswers(SmtpAsked(DNS_OK, mx, FALSE), "mx1"),
            a2 \in SmtpAnswers(SmtpAsked(DNS_OK, mx, FALSE), "mx2") :
            SmtpDomainAddr(
                [mx_rc |-> DNS_OK, mx |-> mx,
                 a |-> [SmtpIdleDns.a EXCEPT !["mx1"] = a1, !["mx2"] = a2]],
                [SmtpIdleConf EXCEPT !.var_bestmx_transp = var_bestmx_transp])

\* The DNS has no MX record for the domain, or the MX lookup fails.
SmtpMxMissing ==
    /\ ~sm_called
    /\ \E mx_rc \in {DNS_NOTFOUND, DNS_FAIL, DNS_RETRY} :
         \E var_ign_mx_lookup_err \in
                IF mx_rc = DNS_NOTFOUND THEN {FALSE} ELSE BOOLEAN :
           \E ad \in SmtpAnswers(
                         SmtpAsked(mx_rc, <<>>, var_ign_mx_lookup_err),
                         SmtpDomain) :
              SmtpDomainAddr(
                  [mx_rc |-> mx_rc, mx |-> <<>>,
                   a |-> [SmtpIdleDns.a EXCEPT ![SmtpDomain] = ad]],
                  [SmtpIdleConf EXCEPT
                      !.var_ign_mx_lookup_err = var_ign_mx_lookup_err])

\* DNS lookups are disabled in the configuration.
SmtpDnsDisabled ==
    /\ ~sm_called
    /\ SmtpDomainAddr(SmtpIdleDns,
                      [SmtpIdleConf EXCEPT !.var_disable_dns = TRUE])

MNext == SmtpMxListed \/ SmtpMxMissing \/ SmtpDnsDisabled

(***************************************************************************)
(* Properties of part 4.                                                   *)
(***************************************************************************)

IsOwnAddr(data) == \E i \in 1..Len(OwnAddrs) : data = OwnAddrs[i]

\* The call took the MX branch and the local host is in the list of the
\* addresses looked up.
SelfListed ==
    /\ sm_called
    /\ sm_r.panic = ""
    /\ sm_dns.mx_rc = DNS_OK
    /\ \E k \in 1..Len(sm_r.looked_up) : IsOwnAddr(sm_r.looked_up[k].data)

\* The best preference at which an address of the local host is listed.
SelfPref ==
    LET prefs == {sm_r.looked_up[k].pref : k \in
                     {j \in 1..Len(sm_r.looked_up) :
                         IsOwnAddr(sm_r.looked_up[j].data)}}
    IN  CHOOSE p \in prefs : \A q \in prefs : p <= q

PrefSorted(list) ==
    \A i \in 1..Len(list) : \A j \in i..Len(list) : list[i].pref <= list[j].pref

\* C19: when an address of the local host is in the preference-sorted list
\* of MX addresses, at preference P, smtp_domain_addr returns exactly the
\* entries of that list with a preference smaller than P, in their order,
\* and sets found_myself: the local host, its equally preferred co-MX hosts
\* and all less preferred hosts are gone.  P is the best preference at
\* which the local host is listed.
C19_TruncatedBelowSelf ==
    SelfListed =>
        /\ PrefSorted(sm_r.looked_up)
        /\ sm_r.addr_list =
               SelectSeq(sm_r.looked_up, LAMBDA rr : rr.pref < SelfPref)
        /\ sm_r.found_myself

\* A better host is kept; the local host, a co-MX at its preference and a
\* less preferred host are taken out.
C19_Witness ==
    /\ SelfListed
    /\ sm_r.addr_list # <<>>
    /\ \E k \in 1..Len(sm_r.looked_up) :
           /\ sm_r.looked_up[k].pref = SelfPref
           /\ ~IsOwnAddr(sm_r.looked_up[k].data)
    /\ \E k \in 1..Len(sm_r.looked_up) : sm_r.looked_up[k].pref > SelfPref

\* The best preference among the MX records of the DNS answer.
BestMxPref ==
    LET prefs == {sm_dns.mx[i].pref : i \in 1..Len(sm_dns.mx)}
    IN  CHOOSE p \in prefs : \A q \in prefs : p <= q

\* The best preference among the addresses looked up.
BestFoundPref ==
    LET prefs == {sm_r.looked_up[i].pref : i \in 1..Len(sm_r.looked_up)}
    IN  CHOOSE p \in prefs : \A q \in prefs : p <= q

\* C20: when the local host is found and nothing is left of the list,
\* smtp_domain_addr returns the null list with smtp_errno SMTP_RETRY
\* ("unable to find primary relay") if the best MX preference of the DNS
\* differs from the best preference among the addresses looked up; else
\* with SMTP_OK if a best-MX transport is configured; else with SMTP_FAIL
\* and "mail loops back to myself".
C20_LoopClassification ==
    (SelfListed /\ SelfPref = BestFoundPref) =>
        /\ sm_r.addr_list = <<>>
        /\ sm_r.found_myself
        /\ IF BestMxPref # BestFoundPref
           THEN /\ sm_r.smtp_errno = SMTP_RETRY
                /\ sm_r.why = "unable to find primary relay"
           ELSE IF sm_conf.var_bestmx_transp # ""
           THEN sm_r.smtp_errno = SMTP_OK
           ELSE /\ sm_r.smtp_errno = SMTP_FAIL
                /\ sm_r.why = "mail loops back to myself"

\* The primary MX host has no address, the local host is the best one that
\* has, and a best-MX transport is configured: retry.
C20_Witness ==
    /\ SelfListed
    /\ sm_r.addr_list = <<>>
    /\ BestMxPref # BestFoundPref
    /\ sm_conf.var_bestmx_transp # ""
    /\ sm_r.smtp_errno = SMTP_RETRY

\* The call found that the domain has no MX record.
NoMxRecord ==
    /\ sm_called
    /\ sm_r.panic = ""
    /\ sm_dns.mx_rc = DNS_NOTFOUND

\* The address records of the domain name itself, at preference 0.
DomainRecords ==
    LET answer == sm_dns.a[SmtpDomain]
    IN  IF answer.rc = DNS_OK
        THEN [i \in 1..Len(answer.addrs) |->
                 [name |-> SmtpDomain, pref |-> 0, data |-> answer.addrs[i]]]
        ELSE <<>>

\* C37: when the MX lookup reports that the domain has no MX record,
\* smtp_domain_addr returns the address records of the domain name itself,
\* all at preference 0, with found_myself false and nothing cut off the
\* list, also when an address of the list is one of the local host's.
C37_NoMxFallsBackToA ==
    NoMxRecord =>
        /\ sm_r.addr_list = DomainRecords
        /\ ~sm_r.found_myself

\* The domain name has two addresses, the second one the local host's; both
\* are returned.
C37_Witness ==
    /\ NoMxRecord
    /\ Len(sm_r.addr_list) = 2
    /\ IsOwnAddr(sm_r.addr_list[2].data)
    /\ ~IsOwnAddr(sm_r.addr_list[1].data)
    /\ sm_r.addr_list[1].pref = 0

(***************************************************************************)
(* Part 5.  fifo_trigger.c                                                 *)
(*                                                                         *)
(* One client that calls fifo_trigger() again and again, and one listener  *)
(* as in the test program: fifo_listen(), then one read_event() per        *)
(* readable FIFO.  The pipe holds at most PipeBuf bytes.  A call is cut    *)
(* at the one place where the kernel can make it wait, the write.          *)
(***************************************************************************)

PipeBuf == 2            \* bound: the capacity of the pipe, in bytes
MaxTriggers == 3        \* bound: the calls of fifo_trigger() in one run

BLOCKING == 0
NON_BLOCKING == 1

\* The test program's request: fifo_trigger(TEST_FIFO, "", 1, 0).
TriggerLen == 1

\* Timeouts of each kind: negative, zero, positive.
TriggerTimeouts == {-1, 0, 1}

\* non_blocking(fd, timeout > 0 ? NON_BLOCKING : BLOCKING)
FifoFdMode_always_blocking(timeout) == BLOCKING

FifoFdMode(timeout) == IF timeout > 0 THEN NON_BLOCKING ELSE BLOCKING

\* open(service, O_WRONLY | O_NONBLOCK, 0): returns at once, with an error
\* when no process is reading from the FIFO.
FifoOpenOk == ff_listener

\* The pipe has no room for the request.
FifoFull == ff_buf + TriggerLen > PipeBuf

\* The call is inside write() on a descriptor in blocking mode and the pipe
\* has no room: it stays there until the listener reads.
FifoWaiting == ft_pc = "write" /\ ft_mode = BLOCKING /\ FifoFull

\* write_buf(fd, buf, len, timeout): with a time limit it waits at most that
\* long for room and then fails; without one it is a plain write().
write_buf_ok == ~FifoFull

\* The value that fifo_trigger() returns once the FIFO was opened.
TriggerReturn(wrote) == 0

\* A call has returned and no other is under way.
TriggerReturned == ft_pc = "idle" /\ trig_count > 0

FInit ==
    /\ ff_listener = FALSE
    /\ ff_buf = 0
    /\ ft_pc = "idle"
    /\ ft_timeout = 0
    /\ ft_mode = NON_BLOCKING
    /\ ft_result = 0
    /\ ft_warn = {}
    /\ trig_count = 0
    /\ wakeup_count = 0
    /\ ft_written = 0

\* TEST main: fifo_listen(TEST_FIFO, 0600, NON_BLOCKING) and
\* event_enable_read(listen_fd, read_event, ...).
FifoListen ==
    /\ ~ff_listener
    /\ ff_listener' = TRUE
    /\ UNCHANGED <<ff_buf, ft_pc, ft_timeout, ft_mode, ft_result, ft_warn,
                   trig_count, wakeup_count, ft_written>>
    /\ UNCHANGED notfvars

\* fifo_trigger() up to the write: the open, the early return when it
\* fails, and the mode of the descriptor.
TriggerOpen(timeout) ==
    /\ ft_pc = "idle"
    /\ trig_count < MaxTriggers
    /\ ft_timeout' = timeout
    /\ IF FifoOpenOk
       THEN /\ ft_pc' = "write"
            /\ ft_mode' = FifoFdMode(timeout)
            /\ ft_warn' = {}
            /\ UNCHANGED <<ft_result, trig_count>>
       ELSE /\ ft_pc' = "idle"
            /\ ft_result' = -1
            /\ ft_warn' = {"open"}
            /\ trig_count' = trig_count + 1
            /\ UNCHANGED ft_mode
    /\ UNCHANGED <<ff_listener, ff_buf, wakeup_count, ft_written>>
    /\ UNCHANGED notfvars

\* fifo_trigger() from the write on: write_buf(), close() and the return.
TriggerWrite(close_ok) ==
    /\ ft_pc = "write"
    /\ ~FifoWaiting
    /\ ff_buf' = IF write_buf_ok THEN ff_buf + TriggerLen ELSE ff_buf
    /\ ft_written' = IF write_buf_ok THEN ft_written + 1 ELSE ft_written
    /\ ft_warn' = (IF write_buf_ok THEN {} ELSE {"write"})
                    \cup (IF close_ok THEN {} ELSE {"close"})
    /\ ft_result' = TriggerReturn(write_buf_ok)
    /\ ft_pc' = "idle"
    /\ trig_count' = trig_count + 1
    /\ UNCHANGED <<ff_listener, ft_timeout, ft_mode, wakeup_count>>
    /\ UNCHANGED notfvars

\* read_event(): wakeup_count++, then read(fd, &ch, 1), which must give
\* one byte.
ReadEvent_drain ==
    /\ ff_listener
    /\ ff_buf > 0
    /\ wakeup_count' = wakeup_count + 1
    /\ ff_buf' = 0
    /\ UNCHANGED <<ff_listener, ft_pc, ft_timeout, ft_mode, ft_result,
                   ft_warn, trig_count, ft_written>>
    /\ UNCHANGED notfvars

ReadEvent ==
    /\ ff_listener
    /\ ff_buf > 0
    /\ wakeup_count' = wakeup_count + 1
    /\ ff_buf' = ff_buf - 1
    /\ UNCHANGED <<ff_listener, ft_pc, ft_timeout, ft_mode, ft_result,
                   ft_warn, trig_count, ft_written>>
    /\ UNCHANGED notfvars

TriggerOpenStep == \E timeout \in TriggerTimeouts : TriggerOpen(timeout)

TriggerWriteStep == \E close_ok \in BOOLEAN : TriggerWrite(close_ok)

FNext ==
    \/ FifoListen
    \/ TriggerOpenStep
    \/ TriggerWriteStep
    \/ ReadEvent

\* C21 as stated: fifo_trigger never waits for a reader, whatever the
\* timeout and the state of the FIFO; it returns -1 only when the FIFO
\* cannot be opened and 0 otherwise, also when the write or close failed.
C21_NeverWaits ==
    /\ ~FifoWaiting
    /\ TriggerReturned => (ft_result = -1 => "open" \in ft_warn)
    /\ (TriggerReturned /\ "open" \notin ft_warn) => ft_result = 0

\* C21 amended: a call waits for the reader only when it has no time limit
\* (timeout <= 0) and the pipe is full; with a time limit the descriptor is
\* non-blocking and the call never waits in the kernel.  A finished call
\* returned -1 exactly when the open failed, and 0 otherwise, also when
\* the write or the close failed.
C21_WaitsOnlyWithoutTimeLimit ==
    /\ FifoWaiting => (ft_timeout <= 0 /\ ff_buf = PipeBuf /\ ff_listener)
    /\ (ft_pc = "write" /\ ft_timeout > 0) => ft_mode = NON_BLOCKING
    /\ TriggerReturned => (ft_result = -1 <=> "open" \in ft_warn)
    /\ (TriggerReturned /\ "open" \notin ft_warn) => ft_result = 0

\* A call with a time limit found the pipe full: the write failed, the
\* call returned 0.
C21_Witness ==
    /\ ft_pc = "idle"
    /\ ft_timeout > 0
    /\ "write" \in ft_warn
    /\ ft_result = 0
    /\ ff_buf = PipeBuf

\* C22: while a listener holds the FIFO open, a call that writes its byte
\* returns 0 and makes one more byte readable; read_event() takes exactly
\* one byte per run, so every byte written is either read by a run of its
\* own or still readable (the listener has an event pending), and after k
\* written triggers the handler comes to run k times.
TriggerAccounted ==
    /\ ft_written = wakeup_count + ff_buf
    /\ ft_written > wakeup_count => (ff_listener /\ ff_buf > 0)

TriggerWroteOne ==
    ft_written' = ft_written + 1
        => /\ ff_listener
           /\ ff_buf' = ff_buf + 1
           /\ ft_result' = 0
           /\ wakeup_count' = wakeup_count

ReadTookOne ==
    wakeup_count' # wakeup_count
        => /\ wakeup_count' = wakeup_count + 1
           /\ ff_buf' = ff_buf - 1
           /\ ft_written' = ft_written

C22_NoTriggerLostOrMerged ==
    /\ []TriggerAccounted
    /\ [][TriggerWroteOne /\ ReadTookOne]_vars
    /\ \A k \in 1..MaxTriggers : (ft_written >= k) ~> (wakeup_count >= k)

\* Three triggers were written and the handler has run three times.
C22_Witness ==
    /\ ft_written = MaxTriggers
    /\ wakeup_count = MaxTriggers
    /\ ff_buf = 0

(***************************************************************************)
(* Part 6.  bounce_log.c                                                   *)
(*                                                                         *)
(* One bounce or defer logfile and one handle on it.  The file is its      *)
(* sequence of bytes; an offset counts bytes from 0, so the byte at        *)
(* offset k is file[k + 1].                                                *)
(***************************************************************************)

MaxRecords == 3         \* bound: the lines of the logfile at the start
MaxAppended == 2        \* bound: the bytes that the file may grow by
MaxMarks == 2           \* bound: the calls of bounce_log_delrcpt() after one read

NL == "\n"
BEL == "BEL"            \* a control character

BOUNCE_LOG_STAT_DELETED == "#"

\* The lines of a logfile: two records, an empty line, a record that was
\* marked earlier, and two malformed lines.
LogLines ==
    { <<"<", "a", ">", ":", " ", "x">>,
      <<"<", ">", ":", " ", " ", BEL>>,
      <<>>,
      <<BOUNCE_LOG_STAT_DELETED, "a", ">", ":", " ", "x">>,
      <<"j">>,
      <<"<", "b">> }

RECURSIVE LogFiles(_)
LogFiles(n) ==
    IF n = 0 THEN {<<>>}
    ELSE LET shorter == LogFiles(n - 1)
         IN shorter \cup {f \o l \o <<NL>> : f \in shorter, l \in LogLines}

\* The offset of the first newline at or after pos, or the end of the file.
LineEnd(file, pos) ==
    IF \E i \in pos + 1..Len(file) : file[i] = NL
    THEN (CHOOSE i \in pos + 1..Len(file) :
              /\ file[i] = NL
              /\ \A j \in pos + 1..i - 1 : file[j] # NL) - 1
    ELSE Len(file)

\* vstring_get_nonl(bp->buf, bp->fp): the next line without its newline.
vstring_get_nonl(file, pos) ==
    LET end == LineEnd(file, pos)
    IN [eof |-> pos >= Len(file),
        buf |-> SubSeq(file, pos + 1, end),
        pos |-> IF end < Len(file) THEN end + 1 ELSE Len(file)]

\* printable(string, '?'): control characters become question marks.
printable(buf) == [i \in 1..Len(buf) |-> IF buf[i] = BEL THEN "?" ELSE buf[i]]

\* strstr(recipient, ">: ") in a line that starts with '<': the index of
\* the '>' in the line, or 0.
FindEnd(cp) ==
    LET hits == {i \in 2..Len(cp) - 2 :
                    cp[i] = ">" /\ cp[i + 1] = ":" /\ cp[i + 2] = " "}
    IN IF hits = {} THEN 0 ELSE CHOOSE i \in hits : \A j \in hits : i <= j

\* while (*text && ISSPACE(*text)) text++
RECURSIVE SkipSpace(_)
SkipSpace(text) ==
    IF text # <<>> /\ Head(text) = " " THEN SkipSpace(Tail(text)) ELSE text

NoHandle ==
    [open |-> FALSE, pos |-> 0, offset |-> 0, recipient |-> <<"none">>,
     status |-> "", text |-> <<"none">>, malformed |-> 0]

\* bounce_log_open(): a handle at the start of the file.
bounce_log_open(queue_name) ==
    [open |-> TRUE, pos |-> 0, offset |-> 0, recipient |-> <<"none">>,
     status |-> IF queue_name = "defer" THEN "4.0.0" ELSE "5.0.0",
     text |-> <<"none">>, malformed |-> 0]

\* bounce_log_read(): the handle after the call, and whether a record was
\* returned.
RECURSIVE bounce_log_read(_, _)
bounce_log_read(file, bp) ==
    LET got == vstring_get_nonl(file, bp.pos)
        at == [bp EXCEPT !.offset = bp.pos, !.pos = got.pos]
        cp == printable(got.buf)
        end == FindEnd(cp)
    IN IF got.eof THEN [bp |-> at, returned |-> FALSE]
       ELSE IF got.buf = <<>> THEN bounce_log_read(file, at)
       ELSE IF cp[1] = BOUNCE_LOG_STAT_DELETED THEN bounce_log_read(file, at)
       ELSE IF cp[1] # "<" \/ end = 0
            THEN bounce_log_read(file,
                     [at EXCEPT !.malformed = 1])
       ELSE [bp |-> [at EXCEPT
                        !.recipient = IF end = 2 THEN <<"(MAILER-DAEMON)">>
                                      ELSE SubSeq(cp, 2, end - 1),
                        !.text = SkipSpace(SubSeq(cp, end + 2, Len(cp)))],
             returned |-> TRUE]

\* VSTREAM_PUTC(c, fp) at an offset: the byte there is replaced, and at
\* the end of the file one is added.
PutcAt(file, offset, c) ==
    IF offset < Len(file) THEN [file EXCEPT ![offset + 1] = c]
    ELSE Append(file, c)

\* bounce_log_delrcpt(): the file and the position of the handle after
\* the call.
bounce_log_delrcpt_no_seek_back(file, bp) ==
    [file |-> PutcAt(file, bp.offset, BOUNCE_LOG_STAT_DELETED),
     bp |-> [bp EXCEPT !.pos = bp.offset + 1]]

bounce_log_delrcpt(file, bp) ==
    LET current_offset == bp.pos
    IN [file |-> PutcAt(file, bp.offset, BOUNCE_LOG_STAT_DELETED),
        bp |-> [bp EXCEPT !.pos = current_offset]]

BInit ==
    /\ bl_file \in LogFiles(MaxRecords)
    /\ bl_bp = NoHandle
    /\ bl_op = "none"
    /\ bl_ret = FALSE
    /\ bl_marked = {}
    /\ bl_reopened = FALSE
    /\ bl_appended = 0
    /\ bl_marks = 0

\* The caller closes the handle it has, if any, and opens the logfile.
BounceLogOpen(queue_name) ==
    /\ bl_bp' = bounce_log_open(queue_name)
    /\ bl_op' = "open"
    /\ bl_ret' = FALSE
    /\ bl_reopened' = (bl_marked # {})
    /\ bl_marks' = 0
    /\ UNCHANGED <<bl_file, bl_marked, bl_appended>>
    /\ UNCHANGED notbvars

BounceLogRead ==
    /\ bl_bp.open
    /\ LET r == bounce_log_read(bl_file, [bl_bp EXCEPT !.malformed = 0])
       IN /\ bl_bp' = r.bp
          /\ bl_ret' = r.returned
    /\ bl_op' = "read"
    /\ bl_marks' = 0
    /\ UNCHANGED <<bl_file, bl_marked, bl_reopened, bl_appended>>
    /\ UNCHANGED notbvars

\* bl_marked collects the offsets of the records that were marked when
\* they were the record that bounce_log_read() had just returned.
BounceLogDelrcpt ==
    /\ bl_bp.open
    /\ bl_marks < MaxMarks
    /\ bl_bp.offset >= Len(bl_file) => bl_appended < MaxAppended
    /\ LET r == bounce_log_delrcpt(bl_file, bl_bp)
       IN /\ bl_file' = r.file
          /\ bl_bp' = r.bp
          /\ bl_appended' = bl_appended + (Len(r.file) - Len(bl_file))
    /\ bl_op' = "delrcpt"
    /\ bl_marks' = bl_marks + 1
    /\ bl_marked' = IF bl_ret THEN bl_marked \cup {bl_bp.offset}
                    ELSE bl_marked
    /\ UNCHANGED <<bl_ret, bl_reopened>>
    /\ UNCHANGED notbvars

BounceLogOpenStep == \E queue_name \in {"bounce", "defer"} :
                        BounceLogOpen(queue_name)

BNext ==
    \/ BounceLogOpenStep
    \/ BounceLogRead
    \/ BounceLogDelrcpt

\* C23: bounce_log_delrcpt, called on a handle whose last bounce_log_read
\* returned a record, overwrites only the first byte of that record with
\* the deleted sentinel: the length of the file, every other byte and the
\* read position stay as they were; marking the record a second time
\* leaves the file as it is; and no later bounce_log_read, on this handle
\* or on a new one, returns a record that was marked.
DelrcptInPlace ==
    (bl_op' = "delrcpt" /\ bl_ret)
        => /\ Len(bl_file') = Len(bl_file)
           /\ \A i \in 1..Len(bl_file) :
                 bl_file'[i] = IF i = bl_bp.offset + 1
                               THEN BOUNCE_LOG_STAT_DELETED ELSE bl_file[i]
           /\ bl_bp' = bl_bp
           /\ bl_marks > 0 => bl_file' = bl_file

NotReturnedAgain ==
    (bl_op' = "read" /\ bl_ret')
        => /\ bl_bp'.offset \notin bl_marked
           /\ bl_file[bl_bp'.offset + 1] = "<"

C23_DelrcptMarksOnlyFirstByte ==
    [][DelrcptInPlace /\ NotReturnedAgain]_vars

\* A record was marked; a new handle then read past it and returned a
\* later record, which was marked twice.
C23_Witness ==
    /\ bl_op = "delrcpt"
    /\ bl_ret
    /\ bl_marks = MaxMarks
    /\ bl_reopened
    /\ \E m \in bl_marked : m < bl_bp.offset
    /\ bl_appended = 0

(***************************************************************************)
(* Part 7.  alias.c                                                        *)
(*                                                                         *)
(* One delivery request of the local delivery agent, as far as the alias   *)
(* database decides it.  deliver_alias() gets its state by value, so the   *)
(* nesting level and the alias being expanded belong to the call.  The     *)
(* way from an expansion back into deliver_alias() leads through           *)
(* deliver_token_string() and deliver_recipient(), which are not in        *)
(* alias.c; they are taken to hand every address of the expansion to       *)
(* deliver_alias() and, when that says NO, to the user's mailbox.  The     *)
(* calls under way are kept on a stack of expansions.                      *)
(***************************************************************************)

NO == 0
YES == 1

\* if (state.level > 100)
AliasMaxLevel == 100

MaxErrAt == 2           \* bound: the lookup of a request that fails, if any

NoName == ""

AliasKeys == {"a", "b"}

\* What the alias database may hold for a name: nothing, or an expansion.
\* "A" is the name "a" in another case; "u" is a user without an alias.
\* An expansion names at most one other alias, which keeps the number of
\* deliveries of one request linear in the nesting level.
NotAliased == [found |-> FALSE, rhs |-> <<>>]

AliasRhs(key) ==
    IF key = "a"
    THEN {<<>>, <<"u">>, <<"b">>, <<"A">>, <<"A", "b">>, <<"b", "A">>,
          <<"b", "u">>}
    ELSE {<<"u">>, <<"a">>, <<"b">>, <<"a", "b">>, <<"b", "a">>,
          <<"a", "u">>}

AliasTables ==
    [AliasKeys -> {NotAliased}
        \cup {[found |-> TRUE, rhs |-> r] : r \in AliasRhs("a")}
        \cup {[found |-> TRUE, rhs |-> r] : r \in AliasRhs("b")}]

AliasTableOk(tbl) ==
    \A k \in AliasKeys : tbl[k].found => tbl[k].rhs \in AliasRhs(k)

\* dict_get(dict, name), and maps_find() for the owner- alias: the result,
\* with dict_errno set on the lookup that the request lets fail.
AliasLookup(in, name, acc) ==
    LET n == acc.lookups + 1
        failed == in.err_at = n
    IN [dict_errno |-> failed,
        found |-> ~failed /\ name \in AliasKeys /\ in.tbl[name].found,
        rhs |-> IF ~failed /\ name \in AliasKeys THEN in.tbl[name].rhs
                ELSE <<>>,
        acc |-> [acc EXCEPT !.lookups = n]]

\* The record of a call of deliver_alias().
AliasCall(name, st, level, result, looked, why) ==
    [name |-> name, exp_from |-> st.exp_from, level |-> level,
     result |-> result, looked |-> looked, why |-> why]

\* The test for the alias that includes its own name.
AliasIsSelf_strcmp(st, name) ==
    st.exp_from # NoName /\ st.exp_from = name

AliasIsSelf(st, name) ==
    st.exp_from # NoName /\ strcasecmp(st.exp_from, name) = 0

\* deliver_alias() up to its return or up to the call of
\* deliver_token_string(): the result, the effects added to acc, and the
\* expansion to be delivered if there is one.
deliver_alias(in, state, name, acc) ==
    LET level == state.level + 1
        st == [state EXCEPT !.level = level]
        got == AliasLookup(in, name, acc)
        own == AliasLookup(in, "owner-", got.acc)
        Return(result, effects, looked, why) ==
            [expand |-> FALSE, result |-> result, acc |-> effects,
             rhs |-> <<>>,
             call |-> AliasCall(name, st, level, result, looked, why)]
        Deferred(effects, text) ==
            [effects EXCEPT !.defer = Append(@, text)]
    IN IF AliasIsSelf(st, name) THEN Return(NO, acc, 0, "self")
       ELSE IF level > AliasMaxLevel
       THEN Return(YES,
                   [acc EXCEPT !.bounce = Append(@,
                        <<"possible alias database loop", name>>)],
                   0, "loop")
       ELSE IF got.found
       THEN IF in.verify
            THEN Return(YES, [got.acc EXCEPT !.sent = Append(@, name)],
                        1, "verify")
            ELSE IF ~in.owner_known
            THEN Return(YES,
                        Deferred(got.acc, "cannot find alias database owner"),
                        1, "owner")
            ELSE IF own.dict_errno
            THEN Return(YES,
                        Deferred(Deferred(own.acc,
                                          "alias database unavailable"),
                                 "alias database unavailable"),
                        2, "error")
            ELSE [expand |-> TRUE, result |-> YES, acc |-> own.acc,
                  rhs |-> got.rhs,
                  call |-> AliasCall(name, st, level, YES, 2, "alias")]
       ELSE IF got.dict_errno
       THEN Return(YES, Deferred(got.acc, "alias database unavailable"),
                   1, "error")
       ELSE Return(NO, got.acc, 1, "none")

\* deliver_alias() after deliver_token_string() has returned.
deliver_alias_return(alias_count, acc) ==
    IF alias_count < 1
    THEN [acc EXCEPT !.defer = Append(@, "alias database unavailable")]
    ELSE acc

AliasNoEffects ==
    [lookups |-> 0, bounce |-> <<>>, defer |-> <<>>, sent |-> <<>>,
     users |-> <<>>]

AliasIdleRequest ==
    [tbl |-> [k \in AliasKeys |-> NotAliased], name |-> NoName,
     verify |-> FALSE, owner_known |-> TRUE, err_at |-> 0]

NoCall == AliasCall(NoName, [exp_from |-> NoName], 0, NO, 0, "")

AInit ==
    /\ al_in = AliasIdleRequest
    /\ al_stack = <<>>
    /\ al_result = NO
    /\ al_acc = AliasNoEffects
    /\ al_last = NoCall
    /\ al_loops = 0
    /\ al_called = FALSE

\* A request arrives: its recipient is the one address still to deliver.
LocalDeliver(in) ==
    /\ ~al_called
    /\ al_in' = in
    /\ al_stack' = <<[name |-> NoName, level |-> 0, rest |-> <<in.name>>,
                      alias_count |-> 1]>>
    /\ al_called' = TRUE
    /\ UNCHANGED <<al_result, al_acc, al_last, al_loops>>
    /\ UNCHANGED notavars

AliasRequests(tbls, verify, owner_known, errs) ==
    [tbl : tbls, name : {"a", "b", "u"}, verify : verify,
     owner_known : owner_known, err_at : errs]

AliasNamed(tbl, key) == {tbl[key].rhs[i] : i \in DOMAIN tbl[key].rhs}

AliasAcyclic(tbl) ==
    ~("b" \in AliasNamed(tbl, "a") /\ "a" \in AliasNamed(tbl, "b"))

\* A request whose aliases do not lead back to one another.
AliasPlain ==
    /\ ~al_called
    /\ \E in \in AliasRequests({t \in AliasTables :
                                   AliasTableOk(t) /\ AliasAcyclic(t)},
                               BOOLEAN, BOOLEAN, 0..MaxErrAt) :
          LocalDeliver(in)

\* A request with an alias loop: a names b and b names a.
AliasLoop ==
    /\ ~al_called
    /\ \E in \in AliasRequests({t \in AliasTables :
                                   AliasTableOk(t) /\ ~AliasAcyclic(t)},
                               {FALSE}, {TRUE}, 0..MaxErrAt) :
          LocalDeliver(in)

AliasTop == al_stack[Len(al_stack)]

AliasPopped ==
    [al_stack EXCEPT ![Len(al_stack)].rest = Tail(@)]

\* The next address of the expansion in hand goes to deliver_alias(); when
\* the result is NO it is delivered to the user.
AliasCallStep ==
    /\ al_called
    /\ al_stack # <<>>
    /\ AliasTop.rest # <<>>
    /\ LET name == Head(AliasTop.rest)
           r == deliver_alias(al_in, [level |-> AliasTop.level,
                                      exp_from |-> AliasTop.name],
                              name, al_acc)
       IN /\ al_last' = r.call
          /\ al_loops' = al_loops + (IF r.call.why = "loop" THEN 1 ELSE 0)
          /\ al_acc' = IF r.result = NO
                       THEN [r.acc EXCEPT !.users = Append(@, name)]
                       ELSE r.acc
          /\ al_stack' = IF r.expand
                         THEN Append(AliasPopped,
                                     [name |-> name, level |-> r.call.level,
                                      rest |-> r.rhs,
                                      alias_count |-> Len(r.rhs)])
                         ELSE AliasPopped
          /\ al_result' = IF Len(al_stack) = 1 THEN r.result ELSE al_result
    /\ UNCHANGED <<al_in, al_called>>
    /\ UNCHANGED notavars

\* The expansion in hand is delivered: deliver_alias() returns YES.
AliasReturnStep ==
    /\ al_called
    /\ Len(al_stack) > 1
    /\ AliasTop.rest = <<>>
    /\ al_acc' = deliver_alias_return(AliasTop.alias_count, al_acc)
    /\ al_stack' = SubSeq(al_stack, 1, Len(al_stack) - 1)
    /\ UNCHANGED <<al_in, al_result, al_last, al_loops, al_called>>
    /\ UNCHANGED notavars

ANext ==
    \/ AliasPlain
    \/ AliasLoop
    \/ AliasCallStep
    \/ AliasReturnStep

AliasDone == al_called /\ Len(al_stack) = 1 /\ AliasTop.rest = <<>>

SelfCall(c) == c.exp_from # NoName /\ Lower(c.exp_from) = Lower(c.name)

LoopBounces ==
    {i \in DOMAIN al_acc.bounce :
        al_acc.bounce[i][1] = "possible alias database loop"}

\* C24 as stated: expansion ends for every table; a call for the alias
\* being expanded returns NO without a lookup; and a call at a nesting
\* level above 100 appends the bounce 'possible alias database loop' and
\* returns YES without expanding further.
C24_DeepCallBounces ==
    /\ \A i \in DOMAIN al_stack : al_stack[i].level <= AliasMaxLevel
    /\ SelfCall(al_last) => (al_last.result = NO /\ al_last.looked = 0)
    /\ al_last.level > AliasMaxLevel
          => (al_last.result = YES /\ al_last.looked = 0
              /\ al_last.why = "loop")

\* C24 amended: the test for the alias's own name comes first, at every
\* level: such a call returns NO without a lookup and without a bounce,
\* also above level 100.  Every other call above level 100 appends the
\* bounce and returns YES without a lookup, so that no expansion is
\* nested deeper than level 100 and every request comes to its end.
AliasCapped ==
    /\ \A i \in DOMAIN al_stack : al_stack[i].level <= AliasMaxLevel
    /\ al_last.level <= AliasMaxLevel + 1
    /\ SelfCall(al_last)
          => (al_last.result = NO /\ al_last.looked = 0
              /\ al_last.why = "self")
    /\ (al_last.level > AliasMaxLevel /\ ~SelfCall(al_last))
          => (al_last.result = YES /\ al_last.looked = 0
              /\ al_last.why = "loop")
    /\ al_last.why = "loop" => al_last.level > AliasMaxLevel
    /\ Cardinality(LoopBounces) = al_loops

C24_SelfFirstThenDepthCap ==
    /\ []AliasCapped
    /\ al_called ~> AliasDone

\* In an alias loop, at level 101, the call for the alias's own name (in
\* another case) has just returned NO, after another call had bounced.
C24_Witness ==
    /\ al_last.level > AliasMaxLevel
    /\ al_last.why = "self"
    /\ al_last.name # al_last.exp_from
    /\ al_loops > 0

(***************************************************************************)
(* Part 8.  mailbox.c and file.c                                           *)
(*                                                                         *)
(* One delivery of the local delivery agent to a mailbox file or to an     *)
(* arbitrary file.  A file mode is the set of its permission bits, and a   *)
(* test of a bit is membership.  The outcome of a delivery is the list of  *)
(* the calls that matter, in their order, and what was reported for the    *)
(* recipient.                                                              *)
(***************************************************************************)

XBits == {"S_IXUSR", "S_IXGRP", "S_IXOTH"}

\* Destination files: regular or not, with and without execute bits.
DestStats ==
    [type : {"reg", "chr"},
     mode : {{"S_IRUSR", "S_IWUSR"},
             {"S_IRUSR", "S_IWUSR", "S_IXGRP"},
             {"S_IRUSR", "S_IWUSR", "S_IXUSR", "S_IRGRP", "S_IXGRP",
              "S_IROTH", "S_IXOTH"}}]

\* The mail spool directory: it cannot be stat'ed, or it has a mode.
SpoolStats ==
    [stat_ok : {FALSE}, mode : {{}}, gid : {8}]
        \cup [stat_ok : {TRUE},
              mode : {{"S_IWUSR"}, {"S_IWUSR", "S_IWGRP"},
                      {"S_IWUSR", "S_IWOTH"},
                      {"S_IWUSR", "S_IWGRP", "S_IWOTH"}},
              gid : {8}]

\* Recipients: an ordinary user, and root.
UserAttrs == {[uid |-> 1000, gid |-> 100], [uid |-> 0, gid |-> 0]}

NoChown == [uid |-> -1, gid |-> -1]

\* The mail system owner, var_owner_uid and var_owner_gid.
MailOwner == [uid |-> 89, gid |-> 89]

\* mailbox.c, lines 145-156: the rights to open and lock the mailbox with.
MailboxRights_root_for_group(in) ==
    IF in.home_mailbox \/ ~in.spool.stat_ok \/ "S_IWOTH" \in in.spool.mode
    THEN [uid |-> in.usr.uid, gid |-> in.usr.gid]
    ELSE [uid |-> 0, gid |-> 0]

MailboxRights(in) ==
    IF in.home_mailbox \/ ~in.spool.stat_ok \/ "S_IWOTH" \in in.spool.mode
    THEN [uid |-> in.usr.uid, gid |-> in.usr.gid]
    ELSE IF "S_IWGRP" \in in.spool.mode
    THEN [uid |-> in.usr.uid, gid |-> in.spool.gid]
    ELSE [uid |-> 0, gid |-> 0]

\* mailbox.c, lines 157-163: the owner to give to the mailbox.
MailboxChown(in, spool) ==
    IF spool.uid = in.usr.uid THEN NoChown
    ELSE [uid |-> in.usr.uid, gid |-> in.usr.gid]

set_eugid(id) == [call |-> "set_eugid", uid |-> id.uid, gid |-> id.gid]

mbox_open(chown) == [call |-> "mbox_open", uid |-> chown.uid, gid |-> chown.gid]

mail_copy == [call |-> "mail_copy", uid |-> -1, gid |-> -1]

mbox_release == [call |-> "mbox_release", uid |-> -1, gid |-> -1]

\* Variant of lines 183-197 with a slip: the content is copied with the
\* rights that the mailbox was opened with.
MailboxOpened_no_switch(in, spool) ==
    (IF in.st.type = "reg" THEN <<mail_copy>> ELSE <<>>) \o <<mbox_release>>

\* mailbox.c, lines 183-197: the calls made for a mailbox that is open.
MailboxOpened(in, spool) ==
    LET switch == spool.uid # in.usr.uid \/ spool.gid # in.usr.gid
    IN  (IF switch THEN <<set_eugid(in.usr)>> ELSE <<>>)
            \o (IF in.st.type = "reg" THEN <<mail_copy>> ELSE <<>>)
            \o (IF switch THEN <<set_eugid(spool)>> ELSE <<>>)
            \o <<mbox_release>>

\* deliver_mailbox_file(): the calls, the status and the report.
deliver_mailbox_file(in) ==
    LET spool == MailboxRights(in)
        chown == MailboxChown(in, spool)
        opened == in.open = "ok"
        is_reg == in.st.type = "reg"
        inside == MailboxOpened(in, spool)
        calls == <<set_eugid(spool), mbox_open(chown)>>
                    \o (IF opened THEN inside ELSE <<>>)
                    \o <<set_eugid(MailOwner)>>
        status == IF opened /\ is_reg /\ in.copy = "ok" THEN 0 ELSE -1
        errno == IF ~opened THEN in.open
                 ELSE IF ~is_reg THEN "0"
                 ELSE in.copy
        why == IF ~opened THEN "mbox_open"
               ELSE IF ~is_reg THEN "destination is not a regular file"
               ELSE "mail_copy"
    IN [calls |-> calls,
        report |-> IF status = 0 THEN "sent"
                   ELSE IF errno \in {"EAGAIN", "ENOSPC"} THEN "defer"
                   ELSE "bounce",
        text |-> IF status = 0 THEN "mailbox" ELSE "cannot access mailbox",
        why |-> IF status = 0 THEN "" ELSE why,
        opened |-> opened,
        panic |-> FALSE]

open_as(id) == [call |-> "open_as", uid |-> id.uid, gid |-> id.gid]

\* file.c, lines 159-190: what happens to the opened destination.
FileAppend(in) ==
    IF in.open # "ok"
    THEN [calls |-> <<>>, report |-> "bounce",
          text |-> "cannot open destination file"]
    ELSE IF ~in.fstat_ok
    THEN [calls |-> <<>>, report |-> "defer", text |-> "cannot fstat file"]
    ELSE IF in.st.type = "reg" /\ ~in.flock_ok
    THEN [calls |-> <<>>, report |-> "defer",
          text |-> "cannot lock destination file"]
    ELSE IF in.st.mode \cap XBits # {}
    THEN [calls |-> <<>>, report |-> "bounce",
          text |-> "executable destination file"]
    ELSE IF in.dot_lock = "EEXIST"
    THEN [calls |-> <<>>, report |-> "defer",
          text |-> "cannot append destination file"]
    ELSE IF in.copy # "ok"
    THEN [calls |-> <<mail_copy>>, report |-> "defer",
          text |-> "cannot append destination file"]
    ELSE [calls |-> <<mail_copy>>, report |-> "sent", text |-> "path"]

\* deliver_file(): the calls and the report.
deliver_file(in) ==
    LET usr == [uid |-> IF in.usr.uid = 0 THEN in.var_default.uid
                        ELSE in.usr.uid,
                gid |-> IF in.usr.gid = 0 THEN in.var_default.gid
                        ELSE in.usr.gid]
        Ends(report, text, fatal) ==
            [calls |-> <<>>, report |-> report, text |-> text, why |-> "",
             opened |-> FALSE, panic |-> fatal]
        app == FileAppend(in)
    IN IF in.been_here THEN Ends("none", "", FALSE)
       ELSE IF ~in.file_allowed
       THEN Ends("bounce", "mail to file is restricted", FALSE)
       ELSE IF usr.uid = 0 THEN Ends("none", "privileged default user id", TRUE)
       ELSE IF usr.gid = 0
       THEN Ends("none", "privileged default group id", TRUE)
       ELSE IF in.maildir THEN Ends("maildir", "", FALSE)
       ELSE [calls |-> <<open_as(usr)>> \o app.calls,
             report |-> app.report, text |-> app.text, why |-> "",
             opened |-> in.open = "ok", panic |-> FALSE]

LocalIdleIn ==
    [home_mailbox |-> FALSE,
     spool |-> [stat_ok |-> FALSE, mode |-> {}, gid |-> 8],
     usr |-> [uid |-> 1000, gid |-> 100], open |-> "ok",
     st |-> [type |-> "reg", mode |-> {"S_IRUSR", "S_IWUSR"}],
     copy |-> "ok", been_here |-> FALSE, file_allowed |-> TRUE,
     var_default |-> [uid |-> 99, gid |-> 99], maildir |-> FALSE,
     fstat_ok |-> TRUE, flock_ok |-> TRUE, dot_lock |-> "none"]

LocalIdleOut ==
    [calls |-> <<>>, report |-> "none", text |-> "", why |-> "",
     opened |-> FALSE, panic |-> FALSE]

LInit ==
    /\ lf_fn = "none"
    /\ lf_in = LocalIdleIn
    /\ lf_out = LocalIdleOut

\* A delivery to the recipient's mailbox.
DeliverMailboxFile ==
    /\ lf_fn = "none"
    /\ \E home_mailbox \in BOOLEAN, spool \in SpoolStats, usr \in UserAttrs,
          open \in {"ok", "EAGAIN", "EACCES"}, st \in DestStats,
          copy \in {"ok", "ENOSPC", "EIO"} :
          LET in == [LocalIdleIn EXCEPT
                        !.home_mailbox = home_mailbox, !.spool = spool,
                        !.usr = usr, !.open = open, !.st = st,
                        !.copy = copy]
          IN /\ lf_in' = in
             /\ lf_out' = deliver_mailbox_file(in)
    /\ lf_fn' = "mailbox"
    /\ UNCHANGED notlvars

\* A delivery to a file named in an alias or a .forward file.
DeliverFile ==
    /\ lf_fn = "none"
    /\ \E been_here \in BOOLEAN, file_allowed \in BOOLEAN,
          usr \in UserAttrs,
          var_default \in {[uid |-> 99, gid |-> 99], [uid |-> 0, gid |-> 0]},
          maildir \in BOOLEAN, open \in {"ok", "EACCES"},
          fstat_ok \in BOOLEAN, st \in DestStats, flock_ok \in BOOLEAN,
          dot_lock \in {"none", "ok", "EEXIST", "EACCES"},
          copy \in {"ok", "ENOSPC"} :
          LET in == [LocalIdleIn EXCEPT
                        !.been_here = been_here,
                        !.file_allowed = file_allowed, !.usr = usr,
                        !.var_default = var_default, !.maildir = maildir,
                        !.open = open, !.fstat_ok = fstat_ok, !.st = st,
                        !.flock_ok = flock_ok, !.dot_lock = dot_lock,
                        !.copy = copy]
          IN /\ lf_in' = in
             /\ lf_out' = deliver_file(in)
    /\ lf_fn' = "file"
    /\ UNCHANGED notlvars

LNext ==
    \/ DeliverMailboxFile
    \/ DeliverFile

\* The rights in effect when call number n was made: those of the last
\* set_eugid() before it.
RECURSIVE RightsAt(_, _)
RightsAt(calls, n) ==
    IF n <= 1 THEN MailOwner
    ELSE IF calls[n - 1].call = "set_eugid"
    THEN [uid |-> calls[n - 1].uid, gid |-> calls[n - 1].gid]
    ELSE RightsAt(calls, n - 1)

CallsOf(name) == {n \in DOMAIN lf_out.calls : lf_out.calls[n].call = name}

ContentWritten == CallsOf("mail_copy") # {}

\* C25: deliver_mailbox_file opens and locks the mailbox with the
\* recipient's uid and gid when it delivers to a home mailbox, when the
\* spool directory cannot be stat'ed or when it is world-writable; with
\* the recipient's uid and the spool directory's gid when the directory is
\* group- but not world-writable; and with (0, 0) otherwise.  It asks for
\* a chown of the mailbox to the recipient exactly when the uid it opens
\* with is not the recipient's.
C25_MailboxOpenRights ==
    lf_fn = "mailbox" =>
        \A n \in CallsOf("mbox_open") :
            LET as == RightsAt(lf_out.calls, n)
                chown == [uid |-> lf_out.calls[n].uid,
                          gid |-> lf_out.calls[n].gid]
                world == "S_IWOTH" \in lf_in.spool.mode
                group == "S_IWGRP" \in lf_in.spool.mode
            IN /\ (lf_in.home_mailbox \/ ~lf_in.spool.stat_ok \/ world)
                     => as = lf_in.usr
               /\ (~lf_in.home_mailbox /\ lf_in.spool.stat_ok /\ ~world
                     /\ group)
                     => as = [uid |-> lf_in.usr.uid, gid |-> lf_in.spool.gid]
               /\ (~lf_in.home_mailbox /\ lf_in.spool.stat_ok /\ ~world
                     /\ ~group)
                     => as = [uid |-> 0, gid |-> 0]
               /\ chown # NoChown <=> as.uid # lf_in.usr.uid
               /\ chown # NoChown => chown = lf_in.usr

\* A mailbox in a spool directory that is group- but not world-writable
\* was opened with the recipient's uid and the directory's gid, without
\* a chown.
C25_Witness ==
    /\ lf_fn = "mailbox"
    /\ ~lf_in.home_mailbox
    /\ lf_in.spool.stat_ok
    /\ lf_in.spool.mode = {"S_IWUSR", "S_IWGRP"}
    /\ lf_in.usr.uid # 0
    /\ lf_out.calls[1] = set_eugid([uid |-> lf_in.usr.uid, gid |-> 8])
    /\ lf_out.calls[2] = mbox_open(NoChown)
    /\ lf_out.report = "sent"

\* The destination was opened, and deliver_file could stat and lock it.
DestinationInHand ==
    /\ lf_out.opened
    /\ lf_fn = "file" => (lf_in.fstat_ok /\ lf_in.flock_ok)

\* C26: a delivery to a mailbox file or a destination file that has any
\* execute bit set ends in a permanent bounce with the reason 'executable
\* destination file', and no message content is written to the file; in
\* deliver_mailbox_file as well as in deliver_file.
C26_ExecutableBounced ==
    (DestinationInHand /\ lf_in.st.mode \cap XBits # {})
        => /\ lf_out.report = "bounce"
           /\ lf_out.text = "executable destination file"
           /\ ~ContentWritten

\* C27: deliver_file and deliver_mailbox_file copy message content only
\* into regular files: when the destination that was opened is not a
\* regular file, no content is written to it and the recipient is not
\* reported as sent.
C27_OnlyRegularFiles ==
    (DestinationInHand /\ lf_in.st.type # "reg")
        => /\ ~ContentWritten
           /\ lf_out.report # "sent"

\* The rights in effect when the delivery is over.
RightsAtEnd == RightsAt(lf_out.calls, Len(lf_out.calls) + 1)

\* C38: deliver_mailbox_file copies message content into the mailbox only
\* with the recipient's uid and gid in effect, opens and releases the
\* mailbox with the spool uid and gid of the privilege rule in effect, and
\* ends every delivery (open or lock failure, a file that is not regular,
\* copy failure, success) with the mail system owner's uid and gid set.
C38_MailboxRightsBracket ==
    lf_fn = "mailbox" =>
        /\ \A n \in CallsOf("mail_copy") :
               RightsAt(lf_out.calls, n) = lf_in.usr
        /\ \A n \in CallsOf("mbox_open") \cup CallsOf("mbox_release") :
               RightsAt(lf_out.calls, n) = MailboxRights(lf_in)
        /\ Cardinality(CallsOf("mbox_open")) = 1
        /\ lf_out.opened <=> Cardinality(CallsOf("mbox_release")) = 1
        /\ lf_out.calls[Len(lf_out.calls)] = set_eugid(MailOwner)
        /\ RightsAtEnd = MailOwner

\* A mailbox opened as root for an ordinary recipient, and the copy failed:
\* the content went in with the recipient's rights, the mailbox was
\* released as root, the delivery ended as the mail system owner.
C38_Witness ==
    /\ lf_fn = "mailbox"
    /\ lf_in.usr.uid # 0
    /\ MailboxRights(lf_in) = [uid |-> 0, gid |-> 0]
    /\ lf_out.opened
    /\ lf_in.copy = "ENOSPC"
    /\ lf_out.report = "defer"
    /\ Len(lf_out.calls) = 7
    /\ lf_out.calls[4] = mail_copy
    /\ lf_out.calls[6] = mbox_release

(***************************************************************************)
(* Part 9.  pipe.c                                                         *)
(*                                                                         *)
(* One pipe delivery agent process and the requests it serves.  The        *)
(* service attributes are the process's command line; they are looked up   *)
(* on the first request and kept in a static structure.  A fatal error     *)
(* ends the process, and the master starts a new one.  Strings that are    *)
(* taken apart are sequences of characters.                                *)
(***************************************************************************)

MaxArgv == 2            \* bound: the elements of the command vector
MaxRcpts == 2           \* bound: the recipients of one request

PIPE_STAT_OK == "PIPE_STAT_OK"
PIPE_STAT_DEFER == "PIPE_STAT_DEFER"
PIPE_STAT_BOUNCE == "PIPE_STAT_BOUNCE"

PIPE_DICT_NEXTHOP == "nexthop"
PIPE_DICT_RCPT == "recipient"
PIPE_DICT_SENDER == "sender"
PIPE_DICT_USER == "user"
PIPE_DICT_EXTENSION == "extension"
PIPE_DICT_MAILBOX == "mailbox"

PipeDictKeys ==
    {PIPE_DICT_NEXTHOP, PIPE_DICT_RCPT, PIPE_DICT_SENDER, PIPE_DICT_USER,
     PIPE_DICT_EXTENSION, PIPE_DICT_MAILBOX}

\* The macros that make an argument expand once per recipient.
PipeRcptFlags ==
    {PIPE_DICT_RCPT, PIPE_DICT_USER, PIPE_DICT_EXTENSION, PIPE_DICT_MAILBOX}

\* var_owner_uid and var_owner_gid.
PipeOwner == [uid |-> 89, gid |-> 89]

Lit(text) == [kind |-> "text", val |-> text]
Mac(name) == [kind |-> "macro", val |-> name]

\* Elements of a command vector, as mac_parse() sees them.
PipeElements ==
    { <<Lit(<<"c">>), Mac(PIPE_DICT_NEXTHOP), Mac(PIPE_DICT_SENDER)>>,
      <<Mac(PIPE_DICT_RCPT)>>,
      <<Lit(<<"-">>), Mac(PIPE_DICT_USER)>>,
      <<Mac(PIPE_DICT_MAILBOX), Lit(<<":">>), Mac(PIPE_DICT_EXTENSION)>> }

RECURSIVE SeqsUpTo(_, _)
SeqsUpTo(S, n) ==
    IF n = 0 THEN {<<>>}
    ELSE LET shorter == SeqsUpTo(S, n - 1)
         IN shorter \cup {Append(s, x) : s \in shorter, x \in S}

\* Recipient addresses: with an extension and upper case, with a blank
\* user part, and without a domain.
PipeAddresses ==
    { <<"U", "+", "E", "@", "d">>, <<"+", "e", "@", "d">>, <<"v">> }

LowerChar(c) == IF c = "U" THEN "u" ELSE IF c = "E" THEN "e" ELSE c

lowercase(str) == [i \in DOMAIN str |-> LowerChar(str[i])]

\* split_at_right(string, delimiter): the string is cut at the rightmost
\* delimiter.
split_at_right(str, delimiter) ==
    LET at == {i \in DOMAIN str : str[i] = delimiter}
        last == CHOOSE i \in at : \A j \in at : j <= i
    IN IF at = {} THEN [found |-> FALSE, left |-> str, right |-> <<>>]
       ELSE [found |-> TRUE, left |-> SubSeq(str, 1, last - 1),
             right |-> SubSeq(str, last + 1, Len(str))]

\* split_addr(localpart, delimiter): the local part is cut at the leftmost
\* delimiter.
split_addr(str, delimiter) ==
    LET at == {i \in DOMAIN str : str[i] = delimiter}
        first == CHOOSE i \in at : \A j \in at : i <= j
    IN IF at = {} THEN [found |-> FALSE, left |-> str, right |-> <<>>]
       ELSE [found |-> TRUE, left |-> SubSeq(str, 1, first - 1),
             right |-> SubSeq(str, first + 1, Len(str))]

\* parse_callback(), over one element: the recipient macros it references.
parse_callback(element) ==
    {element[i].val : i \in {j \in DOMAIN element :
                                element[j].kind = "macro"}}
        \cap PipeRcptFlags

\* dict_eval(PIPE_DICT_TABLE, element, NO)
RECURSIVE dict_eval(_, _)
dict_eval(dict, element) ==
    IF element = <<>> THEN <<>>
    ELSE LET part == Head(element)
         IN (IF part.kind = "text" THEN part.val ELSE dict[part.val])
                \o dict_eval(dict, Tail(element))

\* expand_argv(), lines 315-374: the dictionary updates for one recipient,
\* and whether the argument is suppressed.
ExpandRcpt_keep_blank_user(dict, expand_flag, address, var_rcpt_delim) ==
    LET local == split_at_right(address, "@").left
        split == IF var_rcpt_delim # "" THEN split_addr(local, var_rcpt_delim)
                 ELSE [found |-> FALSE, left |-> local, right |-> <<>>]
        Put(d, flag, val) ==
            IF flag \in expand_flag THEN [d EXCEPT ![flag] = val] ELSE d
        d1 == Put(dict, PIPE_DICT_RCPT, address)
        d2 == Put(d1, PIPE_DICT_USER, lowercase(split.left))
        d3 == Put(d2, PIPE_DICT_EXTENSION,
                  IF split.found THEN lowercase(split.right) ELSE <<>>)
    IN [skip |-> FALSE, dict |-> Put(d3, PIPE_DICT_MAILBOX, lowercase(local))]

ExpandRcpt(dict, expand_flag, address, var_rcpt_delim) ==
    LET local == split_at_right(address, "@").left
        split == IF var_rcpt_delim # "" THEN split_addr(local, var_rcpt_delim)
                 ELSE [found |-> FALSE, left |-> local, right |-> <<>>]
        Put(d, flag, val) ==
            IF flag \in expand_flag THEN [d EXCEPT ![flag] = val] ELSE d
        d1 == Put(dict, PIPE_DICT_RCPT, address)
        d2 == Put(d1, PIPE_DICT_USER, lowercase(split.left))
        d3 == Put(d2, PIPE_DICT_EXTENSION,
                  IF split.found THEN lowercase(split.right) ELSE <<>>)
    IN IF PIPE_DICT_USER \in expand_flag /\ split.left = <<>>
       THEN [skip |-> TRUE, dict |-> d1]
       ELSE [skip |-> FALSE,
             dict |-> Put(d3, PIPE_DICT_MAILBOX, lowercase(local))]

\* expand_argv(), lines 310-376: the loop over the recipients for the
\* element with number cpp.  An argument is kept with the numbers of the
\* element and of the recipient that it was made for.
RECURSIVE ExpandRcpts(_, _, _, _, _, _)
ExpandRcpts(argv, cpp, rcpt_list, i, var_rcpt_delim, r) ==
    IF i > Len(rcpt_list) THEN r
    ELSE LET up == ExpandRcpt(r.dict, parse_callback(argv[cpp]),
                              rcpt_list[i], var_rcpt_delim)
             arg == [element |-> cpp, rcpt |-> i,
                     text |-> dict_eval(up.dict, argv[cpp])]
         IN ExpandRcpts(argv, cpp, rcpt_list, i + 1, var_rcpt_delim,
                        [dict |-> up.dict,
                         result |-> IF up.skip THEN r.result
                                    ELSE Append(r.result, arg)])

\* expand_argv(): the loop over the command vector.
RECURSIVE ExpandFrom(_, _, _, _, _)
ExpandFrom(argv, cpp, rcpt_list, var_rcpt_delim, r) ==
    IF cpp > Len(argv) THEN r
    ELSE ExpandFrom(argv, cpp + 1, rcpt_list, var_rcpt_delim,
            IF parse_callback(argv[cpp]) = {}
            THEN [r EXCEPT !.result = Append(@,
                      [element |-> cpp, rcpt |-> 0,
                       text |-> dict_eval(r.dict, argv[cpp])])]
            ELSE ExpandRcpts(argv, cpp, rcpt_list, 1, var_rcpt_delim, r))

expand_argv(argv, rcpt_list, var_rcpt_delim, dict) ==
    ExpandFrom(argv, 1, rcpt_list, var_rcpt_delim,
               [dict |-> dict, result |-> <<>>])

\* An attribute of the command line is flags=, user=, argv= or something
\* else.  A user= attribute comes with what getpwnam() and getgrnam() say.

NoAttr == [command_set |-> FALSE, command |-> <<>>, uid |-> 0, gid |-> 0]

\* get_service_attr(), lines 425-486: the loop over the attribute list.
RECURSIVE AttrLoop(_, _)
AttrLoop(argv, r) ==
    IF argv = <<>> \/ r.fatal # "" THEN r
    ELSE LET a == Head(argv)
         IN IF a.name = "flags"
            THEN IF a.ok THEN AttrLoop(Tail(argv), r)
                 ELSE [r EXCEPT !.fatal = "unknown flag"]
            ELSE IF a.name = "user"
            THEN IF ~a.pwd_ok
                 THEN [r EXCEPT !.fatal = "unknown username"]
                 ELSE IF a.group # "" /\ ~a.grp_ok
                 THEN [r EXCEPT !.fatal = "unknown group"]
                 ELSE AttrLoop(Tail(argv),
                          [r EXCEPT !.user = TRUE,
                                    !.attr.uid = a.pw_uid,
                                    !.attr.gid = IF a.group # ""
                                                 THEN a.gr_gid
                                                 ELSE a.pw_gid])
            ELSE IF a.name = "argv"
            THEN [r EXCEPT !.attr.command_set = TRUE,
                           !.attr.command = a.command]
            ELSE [r EXCEPT !.fatal = "unknown attribute name"]

\* get_service_attr(), lines 488-502: the sanity checks.
AttrChecks_no_owner_gid(r) ==
    IF r.fatal # "" THEN r.fatal
    ELSE IF ~r.user THEN "missing user= attribute"
    ELSE IF ~r.attr.command_set THEN "missing argv= attribute"
    ELSE IF r.attr.uid = 0 THEN "request to deliver as root"
    ELSE IF r.attr.uid = PipeOwner.uid
    THEN "request to deliver as mail system owner"
    ELSE IF r.attr.gid = 0 THEN "request to use privileged group id"
    ELSE ""

AttrChecks(r) ==
    IF r.fatal # "" THEN r.fatal
    ELSE IF ~r.user THEN "missing user= attribute"
    ELSE IF ~r.attr.command_set THEN "missing argv= attribute"
    ELSE IF r.attr.uid = 0 THEN "request to deliver as root"
    ELSE IF r.attr.uid = PipeOwner.uid
    THEN "request to deliver as mail system owner"
    ELSE IF r.attr.gid = 0 THEN "request to use privileged group id"
    ELSE IF r.attr.gid = PipeOwner.gid
    THEN "request to use mail system owner group id"
    ELSE ""

\* get_service_attr(): the attributes as it leaves them, and the fatal
\* error if there is one.
get_service_attr(attr, argv) ==
    LET r == AttrLoop(argv, [fatal |-> "", user |-> FALSE,
                             attr |-> [attr EXCEPT !.command_set = FALSE]])
    IN [attr |-> r.attr, fatal |-> AttrChecks(r)]

\* eval_command_status(): the records appended, the recipients marked as
\* done in the queue file, and the result.  append[n] is what
\* bounce_append() or defer_append() returns for recipient n.
eval_command_status_mark_all(command_status, rcpt_list, append) ==
    LET all == DOMAIN rcpt_list
        failed == {n \in all : append[n] # 0}
        Calls(name) == [n \in all |-> [call |-> name, rcpt |-> n]]
    IN IF command_status = PIPE_STAT_OK
       THEN [calls |-> Calls("sent"), done |-> all, result |-> 0,
             panic |-> FALSE]
       ELSE IF command_status = PIPE_STAT_BOUNCE
       THEN [calls |-> Calls("bounce_append"), done |-> all,
             result |-> IF failed = {} THEN 0 ELSE -1, panic |-> FALSE]
       ELSE IF command_status = PIPE_STAT_DEFER
       THEN [calls |-> Calls("defer_append"), done |-> {},
             result |-> IF failed = {} THEN 0 ELSE -1, panic |-> FALSE]
       ELSE [calls |-> <<>>, done |-> {}, result |-> 0, panic |-> TRUE]

eval_command_status(command_status, rcpt_list, append) ==
    LET all == DOMAIN rcpt_list
        failed == {n \in all : append[n] # 0}
        Calls(name) == [n \in all |-> [call |-> name, rcpt |-> n]]
    IN IF command_status = PIPE_STAT_OK
       THEN [calls |-> Calls("sent"), done |-> all, result |-> 0,
             panic |-> FALSE]
       ELSE IF command_status = PIPE_STAT_BOUNCE
       THEN [calls |-> Calls("bounce_append"), done |-> all \ failed,
             result |-> IF failed = {} THEN 0 ELSE -1, panic |-> FALSE]
       ELSE IF command_status = PIPE_STAT_DEFER
       THEN [calls |-> Calls("defer_append"), done |-> {},
             result |-> IF failed = {} THEN 0 ELSE -1, panic |-> FALSE]
       ELSE [calls |-> <<>>, done |-> {}, result |-> 0, panic |-> TRUE]

PipeNoOutcome ==
    [fatal |-> "", ran |-> FALSE, uid |-> 0, gid |-> 0, argv |-> <<>>,
     calls |-> <<>>, done |-> {}, result |-> 0, panic |-> FALSE,
     command_status |-> "", append |-> <<>>, command |-> <<>>]

PipeEmptyDict == [k \in PipeDictKeys |-> <<>>]

\* deliver_message(): the static attributes, the dictionary and the outcome
\* after a request.  in is the request; command_status is what
\* pipe_command() returns and append what the bounce and defer services
\* answer, if they get called.
deliver_message(attr, dict, argv, delim, in, command_status, append) ==
    LET looked == IF attr.command_set THEN [attr |-> attr, fatal |-> ""]
                  ELSE get_service_attr(attr, argv)
        d == [dict EXCEPT ![PIPE_DICT_SENDER] = in.sender,
                          ![PIPE_DICT_NEXTHOP] = in.nexthop]
        ex == expand_argv(looked.attr.command, in.rcpt_list, delim,
                          d)
        ev == eval_command_status(command_status, in.rcpt_list, append)
        Fatal(a, msg) ==
            [attr |-> a, dict |-> dict,
             out |-> [PipeNoOutcome EXCEPT !.fatal = msg]]
    IN IF in.nexthop = <<>> THEN Fatal(attr, "empty nexthop hostname")
       ELSE IF Len(in.rcpt_list) <= 0 THEN Fatal(attr, "recipient count")
       ELSE IF looked.fatal # "" THEN Fatal(looked.attr, looked.fatal)
       ELSE [attr |-> looked.attr, dict |-> ex.dict,
             out |-> [fatal |-> "", ran |-> TRUE, uid |-> looked.attr.uid,
                      gid |-> looked.attr.gid, argv |-> ex.result,
                      calls |-> ev.calls, done |-> ev.done,
                      result |-> ev.result, panic |-> ev.panic,
                      command_status |-> command_status,
                      append |-> append,
                      command |-> looked.attr.command]]

\* The user= attributes: every pair of a user's uid and gid, and a group
\* name or none.
PipeUserAttrs ==
    {[name |-> "user", pwd_ok |-> TRUE, pw_uid |-> u, pw_gid |-> g,
      group |-> grp.name, grp_ok |-> TRUE, gr_gid |-> grp.gid, ok |-> TRUE,
      command |-> <<>>] :
        u \in {0, 89, 1001}, g \in {0, 89, 100},
        grp \in {[name |-> "", gid |-> 0], [name |-> "root", gid |-> 0],
                 [name |-> "postfix", gid |-> 89],
                 [name |-> "uucp", gid |-> 14]}}

PipeGoodUser ==
    [name |-> "user", pwd_ok |-> TRUE, pw_uid |-> 1001, pw_gid |-> 100,
     group |-> "", grp_ok |-> TRUE, gr_gid |-> 0, ok |-> TRUE,
     command |-> <<>>]

PipeArgvAttr(command) == [PipeGoodUser EXCEPT !.name = "argv",
                                              !.command = command]

PipeFlagsAttr(ok) == [PipeGoodUser EXCEPT !.name = "flags", !.ok = ok]

PipeSimpleCommand == <<<<Lit(<<"c">>), Mac(PIPE_DICT_NEXTHOP)>>>>

\* Command lines: every user= attribute with a simple command, the
\* malformed ones, and a good user with every command vector.
PipeCommandLines ==
    {<<u, PipeArgvAttr(PipeSimpleCommand)>> : u \in PipeUserAttrs}
        \cup {<<PipeArgvAttr(PipeSimpleCommand)>>,
              <<PipeGoodUser>>,
              <<PipeArgvAttr(PipeSimpleCommand), PipeGoodUser>>,
              <<PipeFlagsAttr(FALSE), PipeGoodUser,
                PipeArgvAttr(PipeSimpleCommand)>>,
              <<[PipeGoodUser EXCEPT !.pwd_ok = FALSE],
                PipeArgvAttr(PipeSimpleCommand)>>,
              <<[PipeGoodUser EXCEPT !.group = "nogroup", !.grp_ok = FALSE],
                PipeArgvAttr(PipeSimpleCommand)>>,
              <<[PipeGoodUser EXCEPT !.name = "bogus"],
                PipeArgvAttr(PipeSimpleCommand)>>}
        \cup {<<PipeFlagsAttr(TRUE), PipeGoodUser, PipeArgvAttr(c)>> :
                 c \in SeqsUpTo(PipeElements, MaxArgv) \ {<<>>}}

PipeIdleRequest ==
    [sender |-> <<"s">>, nexthop |-> <<"h">>, rcpt_list |-> <<>>]

PInitWith(service_argv, var_rcpt_delim) ==
    /\ pp_argv = service_argv
    /\ pp_delim = var_rcpt_delim
    /\ pp_alive = TRUE
    /\ pp_attr = NoAttr
    /\ pp_dict = PipeEmptyDict
    /\ pp_req = PipeIdleRequest
    /\ pp_out = PipeNoOutcome
    /\ pp_restarted = FALSE

PInit ==
    \E service_argv \in PipeCommandLines, var_rcpt_delim \in {"", "+"} :
        PInitWith(service_argv, var_rcpt_delim)

\* pipe_service(): a request is read and delivered.
PipeServe(in, command_status, append) ==
    /\ pp_alive
    /\ \E r \in {deliver_message(pp_attr, pp_dict, pp_argv, pp_delim, in,
                                   command_status, append)} :
          /\ pp_attr' = r.attr
          /\ pp_dict' = r.dict
          /\ pp_out' = r.out
          /\ pp_alive' = (r.out.fatal = "" /\ ~r.out.panic)
    /\ pp_req' = in
    /\ UNCHANGED <<pp_argv, pp_delim, pp_restarted>>
    /\ UNCHANGED notpvars

PipeRcptLists == SeqsUpTo(PipeAddresses, MaxRcpts) \ {<<>>}

\* A request whose command succeeds.
PipeRequest ==
    /\ pp_alive
    /\ \E rcpt_list \in PipeRcptLists :
          PipeServe([PipeIdleRequest EXCEPT !.rcpt_list = rcpt_list],
                    PIPE_STAT_OK, [n \in DOMAIN rcpt_list |-> 0])

\* The command line asks for the simple command or for none.
PipeSimpleService ==
    \A i \in DOMAIN pp_argv :
        pp_argv[i].name = "argv" => pp_argv[i].command = PipeSimpleCommand

\* A request whose command fails, or one with trouble, for a service with
\* the simple command: no next hop, no recipients, a status that
\* pipe_command() should not give, or bounce or defer records that cannot
\* be logged.
PipeTrouble ==
    /\ pp_alive
    /\ PipeSimpleService
    /\ \E rcpt_list \in SeqsUpTo({<<"v">>}, MaxRcpts),
          nexthop \in {<<>>, <<"h">>},
          command_status \in {PIPE_STAT_BOUNCE, PIPE_STAT_DEFER, "other"} :
          \E append \in [DOMAIN rcpt_list -> {0, -1}] :
              PipeServe([PipeIdleRequest EXCEPT
                            !.rcpt_list = rcpt_list, !.nexthop = nexthop],
                        command_status, append)

\* The master starts a new process for the service.
PipeRestart ==
    /\ ~pp_alive
    /\ pp_alive' = TRUE
    /\ pp_attr' = NoAttr
    /\ pp_dict' = PipeEmptyDict
    /\ pp_req' = PipeIdleRequest
    /\ pp_out' = PipeNoOutcome
    /\ pp_restarted' = TRUE
    /\ UNCHANGED <<pp_argv, pp_delim>>
    /\ UNCHANGED notpvars

PNext ==
    \/ PipeRequest
    \/ PipeTrouble
    \/ PipeRestart

\* The ids that the command line asks for: those of its user= attribute.
PipeAsksFor(uid, gid) ==
    \E i \in DOMAIN pp_argv :
        /\ pp_argv[i].name = "user"
        /\ pp_argv[i].pw_uid = uid
        /\ gid = IF pp_argv[i].group # "" THEN pp_argv[i].gr_gid
                 ELSE pp_argv[i].pw_gid

PipePrivileged(uid, gid) ==
    \/ uid = 0
    \/ uid = PipeOwner.uid
    \/ gid = 0
    \/ gid = PipeOwner.gid

PipeAsksPrivileged ==
    \E uid \in {0, PipeOwner.uid, 1001}, gid \in {0, PipeOwner.gid, 14, 100} :
        PipeAsksFor(uid, gid) /\ PipePrivileged(uid, gid)

\* A request has been served.
PipeServed == pp_req # PipeIdleRequest

\* C28: a command never runs with uid 0, with the uid of the mail system
\* owner, with gid 0 or with the gid of the mail system owner; when the
\* command line asks for such ids, every request, the first one and the
\* ones that later processes of the service get, ends in a fatal error
\* without a call of pipe_command.
C28_NoPrivilegedCommand ==
    /\ pp_out.ran => ~PipePrivileged(pp_out.uid, pp_out.gid)
    /\ PipeAsksPrivileged /\ PipeServed
           => ~pp_out.ran /\ pp_out.fatal # ""

\* A later process of a service that asks for the owner's group has served
\* a request and ended in the fatal error.
C28_Witness ==
    /\ PipeAsksFor(1001, PipeOwner.gid)
    /\ pp_restarted
    /\ ~pp_alive
    /\ pp_req.rcpt_list # <<>>
    /\ pp_req.nexthop # <<>>
    /\ pp_out.fatal = "request to use mail system owner group id"

\* The user part of an address is blank.
PipeBlankUser(address) ==
    LET local == split_at_right(address, "@").left
    IN IF pp_delim # "" THEN split_addr(local, pp_delim).left = <<>>
       ELSE local = <<>>

PipeArgMade(element, rcpt) == [element |-> element, rcpt |-> rcpt]

\* The arguments that are due for the elements from number cpp on.
RECURSIVE PipeArgsDue(_, _, _)
PipeArgsDue(argv, cpp, rcpt_list) ==
    IF cpp > Len(argv) THEN <<>>
    ELSE LET refs == parse_callback(argv[cpp])
             Due(n) == ~(PIPE_DICT_USER \in refs
                            /\ PipeBlankUser(rcpt_list[n]))
             all == [n \in DOMAIN rcpt_list |-> PipeArgMade(cpp, n)]
             LessBlank == SelectSeq(all, LAMBDA a : Due(a.rcpt))
         IN (IF refs = {} THEN <<PipeArgMade(cpp, 0)>> ELSE LessBlank)
                \o PipeArgsDue(argv, cpp + 1, rcpt_list)

PipeCalled(name) ==
    pp_out.calls = [n \in DOMAIN pp_req.rcpt_list |->
                       [call |-> name, rcpt |-> n]]

PipeLogged(n) == pp_out.append[n] = 0

\* C30: after a delivery, when the command succeeded every recipient is
\* marked as done; when it failed for good, a bounce record is appended
\* for every recipient, the recipients marked as done are those whose
\* record was logged, and the result is non-zero when one was not; when it
\* failed for now, a defer record is appended for every recipient and none
\* is marked as done.
C30_RecipientsShareOutcome ==
    pp_out.ran =>
        /\ pp_out.command_status = PIPE_STAT_OK
               => pp_out.done = DOMAIN pp_req.rcpt_list
        /\ pp_out.command_status = PIPE_STAT_BOUNCE
               => /\ PipeCalled("bounce_append")
                  /\ pp_out.done
                         = {n \in DOMAIN pp_req.rcpt_list : PipeLogged(n)}
                  /\ pp_out.done # DOMAIN pp_req.rcpt_list
                         => pp_out.result # 0
        /\ pp_out.command_status = PIPE_STAT_DEFER
               => PipeCalled("defer_append") /\ pp_out.done = {}

\* The command failed for good, and of two recipients one got its bounce
\* record logged.
C30_Witness ==
    /\ pp_out.ran
    /\ pp_out.command_status = PIPE_STAT_BOUNCE
    /\ pp_out.append = <<0, -1>>
    /\ pp_out.done = {1}
    /\ pp_out.result # 0

(***************************************************************************)
(* Part 10.  master.c                                                      *)
(*                                                                         *)
(* Master processes that are started on one queue directory, the           *)
(* master.pid lock file, and the main loop of the master that runs.  A     *)
(* process takes one step at a time: the access() test of test mode, the   *)
(* open_lock() call, what follows it, the configuration, and in the main   *)
(* loop the return from event_loop(), the two flag tests and the two       *)
(* handlers.  Signals come in between any two steps.                       *)
(***************************************************************************)

MasterProcs == {"m1", "m2"}

NoMaster == "none"

SIGHUP == "SIGHUP"
SIGCHLD == "SIGCHLD"

\* The places of main() after the lock is held and configuration is done.
MasterLoopPcs ==
    {"event_loop", "test_sighup", "master_refresh", "test_sigchld",
     "master_reap_child"}

MasterPast(p) == ma_pc[p] \in {"master_config"} \cup MasterLoopPcs

\* open_lock(): the file is created when it is missing, and the exclusive
\* lock is taken unless another process holds it.
open_lock(p) ==
    [exists |-> TRUE,
     lock |-> IF ma_lock = NoMaster THEN p ELSE ma_lock,
     lock_fp |-> ma_lock = NoMaster]

\* A process ends, with what it leaves behind: its lock is released.
MasterEnds(p, status, exists, lock) ==
    /\ ma_pc' = [ma_pc EXCEPT ![p] = "ended"]
    /\ ma_status' = [ma_status EXCEPT ![p] = status]
    /\ ma_exists' = exists
    /\ ma_lock' = IF lock = p THEN NoMaster ELSE lock
    /\ UNCHANGED <<ma_test, master_gotsighup, master_gotsigchld, ma_due,
                   ma_sighup_seen>>
    /\ UNCHANGED notmavars

MasterGoes(p, pc) ==
    /\ ma_pc' = [ma_pc EXCEPT ![p] = pc]
    /\ UNCHANGED <<ma_status, ma_test>>
    /\ UNCHANGED notmavars

MaInitWith(exists) ==
    /\ ma_pc = [p \in MasterProcs |-> "none"]
    /\ ma_test = [p \in MasterProcs |-> FALSE]
    /\ ma_status = [p \in MasterProcs |-> ""]
    /\ ma_exists = exists
    /\ ma_lock = NoMaster
    /\ master_gotsighup = [p \in MasterProcs |-> FALSE]
    /\ master_gotsigchld = [p \in MasterProcs |-> FALSE]
    /\ ma_due = [p \in MasterProcs |-> {}]
    /\ ma_sighup_seen = [p \in MasterProcs |-> FALSE]

MaInit == \E exists \in BOOLEAN : MaInitWith(exists)

\* main(), lines 159-276: a master is started, with -t or without.
MasterStart(p, test_lock) ==
    /\ ma_pc[p] \in {"none", "ended"}
    /\ ma_pc' = [ma_pc EXCEPT ![p] = IF test_lock THEN "access"
                                     ELSE "open_lock"]
    /\ ma_test' = [ma_test EXCEPT ![p] = test_lock]
    /\ ma_status' = [ma_status EXCEPT ![p] = ""]
    /\ UNCHANGED <<ma_exists, ma_lock, master_gotsighup, master_gotsigchld,
                   ma_due, ma_sighup_seen>>
    /\ UNCHANGED notmavars

\* main(), lines 286-287: in test mode, no file means that it is not
\* locked.
MasterAccess(p) ==
    /\ ma_pc[p] = "access"
    /\ IF ~ma_exists
       THEN MasterEnds(p, "exit 0", ma_exists, ma_lock)
       ELSE /\ MasterGoes(p, "open_lock")
            /\ UNCHANGED <<ma_exists, ma_lock, master_gotsighup,
                           master_gotsigchld, ma_due, ma_sighup_seen>>

\* main(), lines 288-292: the lock is asked for.  Without it, the process
\* ends: with exit status 1 in test mode, with a fatal error otherwise.
MasterOpenLock_no_lock_needed(p) ==
    /\ ma_pc[p] = "open_lock"
    /\ LET r == open_lock(p)
       IN IF r.lock_fp \/ ~ma_test[p]
          THEN /\ MasterGoes(p, "locked")
               /\ ma_exists' = r.exists
               /\ ma_lock' = r.lock
               /\ UNCHANGED <<master_gotsighup, master_gotsigchld, ma_due,
                              ma_sighup_seen>>
          ELSE MasterEnds(p, "exit 1", r.exists, r.lock)

MasterOpenLock(p) ==
    /\ ma_pc[p] = "open_lock"
    /\ LET r == open_lock(p)
       IN IF r.lock_fp
          THEN /\ MasterGoes(p, "locked")
               /\ ma_exists' = r.exists
               /\ ma_lock' = r.lock
               /\ UNCHANGED <<master_gotsighup, master_gotsigchld, ma_due,
                              ma_sighup_seen>>
          ELSE MasterEnds(p, IF ma_test[p] THEN "exit 1" ELSE "fatal: lock",
                          r.exists, r.lock)

\* main(), lines 289-300: with the lock, test mode ends with exit status 0;
\* otherwise the process id is written to the file, which may fail.
MasterLocked(p, flushed) ==
    /\ ma_pc[p] = "locked"
    /\ IF ma_test[p] THEN MasterEnds(p, "exit 0", ma_exists, ma_lock)
       ELSE IF ~flushed
       THEN MasterEnds(p, "fatal: cannot update lock file", ma_exists,
                       ma_lock)
       ELSE /\ MasterGoes(p, "master_config")
            /\ UNCHANGED <<ma_exists, ma_lock, master_gotsighup,
                           master_gotsigchld, ma_due, ma_sighup_seen>>

\* main(), lines 313-331: master_config(), master_sigsetup(), and the
\* first call of event_loop().
MasterConfig(p) ==
    /\ ma_pc[p] = "master_config"
    /\ MasterGoes(p, "event_loop")
    /\ UNCHANGED <<ma_exists, ma_lock, master_gotsighup, master_gotsigchld,
                   ma_due, ma_sighup_seen>>

\* A signal handler of master_sigsetup(): the flag is set.  A master that
\* waits in event_loop() is woken up.
MasterSignal(p, sig) ==
    /\ ma_pc[p] \in MasterLoopPcs
    /\ master_gotsighup' =
           [master_gotsighup EXCEPT ![p] = @ \/ sig = SIGHUP]
    /\ master_gotsigchld' =
           [master_gotsigchld EXCEPT ![p] = @ \/ sig = SIGCHLD]
    /\ ma_due' = [ma_due EXCEPT ![p] = @ \cup {sig}]
    /\ ma_pc' = [ma_pc EXCEPT ![p] = IF @ = "event_loop"
                                     THEN "test_sighup" ELSE @]
    /\ ma_sighup_seen' =
           [ma_sighup_seen EXCEPT
               ![p] = IF ma_pc[p] = "event_loop"
                      THEN master_gotsighup'[p] ELSE @]
    /\ UNCHANGED <<ma_status, ma_test, ma_exists, ma_lock>>
    /\ UNCHANGED notmavars

\* event_loop(-1) returns after a read, write or timer event.
MasterEvent(p) ==
    /\ ma_pc[p] = "event_loop"
    /\ MasterGoes(p, "test_sighup")
    /\ ma_sighup_seen' =
           [ma_sighup_seen EXCEPT ![p] = master_gotsighup[p]]
    /\ UNCHANGED <<ma_exists, ma_lock, master_gotsighup, master_gotsigchld,
                   ma_due>>

\* main(), lines 332-334: the SIGHUP flag is tested, and cleared first
\* when it is set.
MasterTestSighup(p) ==
    /\ ma_pc[p] = "test_sighup"
    /\ MasterGoes(p, IF master_gotsighup[p] THEN "master_refresh"
                     ELSE "test_sigchld")
    /\ master_gotsighup' = [master_gotsighup EXCEPT ![p] = FALSE]
    /\ ma_due' = [ma_due EXCEPT ![p] = @ \ {SIGHUP}]
    /\ UNCHANGED <<ma_exists, ma_lock, master_gotsigchld, ma_sighup_seen>>

\* main(), lines 335-336: master_vars_init() and master_refresh().
MasterRefresh(p) ==
    /\ ma_pc[p] = "master_refresh"
    /\ MasterGoes(p, "test_sigchld")
    /\ ma_sighup_seen' = [ma_sighup_seen EXCEPT ![p] = FALSE]
    /\ UNCHANGED <<ma_exists, ma_lock, master_gotsighup, master_gotsigchld,
                   ma_due>>

\* main(), lines 338-341: the SIGCHLD flag is tested, and cleared first
\* when it is set.  Without it the loop goes on to event_loop().
MasterTestSigchld(p) ==
    /\ ma_pc[p] = "test_sigchld"
    /\ MasterGoes(p, IF master_gotsigchld[p] THEN "master_reap_child"
                     ELSE "event_loop")
    /\ master_gotsigchld' = [master_gotsigchld EXCEPT ![p] = FALSE]
    /\ ma_due' = [ma_due EXCEPT ![p] = @ \ {SIGCHLD}]
    /\ UNCHANGED <<ma_exists, ma_lock, master_gotsighup, ma_sighup_seen>>

\* main(), lines 342-344 and 330-331: master_reap_child(), and the loop
\* goes on to event_loop().
MasterReapChild(p) ==
    /\ ma_pc[p] = "master_reap_child"
    /\ MasterGoes(p, "event_loop")
    /\ UNCHANGED <<ma_exists, ma_lock, master_gotsighup, master_gotsigchld,
                   ma_due, ma_sighup_seen>>

MasterStartStep == \E p \in MasterProcs, t \in BOOLEAN : MasterStart(p, t)

MasterAccessStep == \E p \in MasterProcs : MasterAccess(p)

MasterOpenLockStep == \E p \in MasterProcs : MasterOpenLock(p)

MasterLockedStep ==
    \E p \in MasterProcs, flushed \in BOOLEAN : MasterLocked(p, flushed)

MasterConfigStep == \E p \in MasterProcs : MasterConfig(p)

MasterSignalStep ==
    \E p \in MasterProcs, sig \in {SIGHUP, SIGCHLD} : MasterSignal(p, sig)

MasterEventStep == \E p \in MasterProcs : MasterEvent(p)

\* The steps of the main loop that the process takes by itself.
MasterLoopStep ==
    \E p \in MasterProcs :
        \/ MasterTestSighup(p)
        \/ MasterRefresh(p)
        \/ MasterTestSigchld(p)
        \/ MasterReapChild(p)

MaNext ==
    \/ MasterStartStep
    \/ MasterAccessStep
    \/ MasterOpenLockStep
    \/ MasterLockedStep
    \/ MasterConfigStep
    \/ MasterSignalStep
    \/ MasterEventStep
    \/ MasterLoopStep

\* Process p takes the step that ends it.
MasterEnding(p) == ma_pc[p] # "ended" /\ ma_pc'[p] = "ended"

\* Another process than p holds the lock.
MasterLockedOut(p) == ma_lock \notin {NoMaster, p}

\* A master that asks for the lock while another process holds it ends
\* with a fatal error, or with exit status 1 in test mode.
MasterRefused ==
    \A p \in MasterProcs :
        ma_pc[p] = "open_lock" /\ ma_pc'[p] # "open_lock"
                /\ MasterLockedOut(p)
            => /\ ma_pc'[p] = "ended"
               /\ ma_status'[p] = IF ma_test[p] THEN "exit 1"
                                  ELSE "fatal: lock"

\* A master in test mode ends with exit status 1 when the file is locked,
\* and with exit status 0 when it is missing or not locked.
MasterTestStatus ==
    \A p \in MasterProcs :
        ma_test[p] /\ MasterEnding(p)
            => /\ ma_status'[p] = "exit 1" <=> MasterLockedOut(p)
               /\ ma_status'[p] = "exit 0"
                      <=> ~ma_exists \/ ~MasterLockedOut(p)

\* C31: at most one master is past the lock, in the configuration or in
\* the event loop, and it holds the lock; a master that is started while
\* another holds the lock ends with a fatal error before master_config;
\* in test mode a master ends with exit status 0 exactly when the lock
\* file is missing or not locked, with exit status 1 when it is locked,
\* and never gets to the event loop.
C31_OneMasterPastLock ==
    /\ [](\A p, q \in MasterProcs :
              MasterPast(p) /\ MasterPast(q) => p = q)
    /\ [](\A p \in MasterProcs :
              MasterPast(p) => ma_lock = p /\ ~ma_test[p])
    /\ [][MasterRefused /\ MasterTestStatus]_vars

\* One master is in its event loop, and another that was started next to
\* it has ended with the fatal error.
C31_Witness ==
    \E p, q \in MasterProcs :
        /\ ma_pc[p] = "event_loop"
        /\ ma_pc[q] = "ended"
        /\ ma_status[q] = "fatal: lock"

\* A flag is clear when its handler starts, and a signal that arrives
\* while the handler runs leaves the flag set until the handler is done.
MasterClearedFirst ==
    \A p \in MasterProcs :
        /\ ma_pc'[p] = "master_refresh" /\ ma_pc[p] # "master_refresh"
               => ~master_gotsighup'[p]
        /\ ma_pc'[p] = "master_reap_child"
                   /\ ma_pc[p] # "master_reap_child"
               => ~master_gotsigchld'[p]
        /\ ma_pc[p] = "master_refresh" /\ master_gotsighup[p]
               => master_gotsighup'[p]
        /\ ma_pc[p] = "master_reap_child" /\ master_gotsigchld[p]
               => master_gotsigchld'[p]

\* master_reap_child does not run while a SIGHUP that was seen when
\* event_loop returned waits for master_refresh.
MasterSighupFirst ==
    \A p \in MasterProcs :
        ma_pc[p] = "master_reap_child" => ~ma_sighup_seen[p]

\* Every signal that was delivered is followed by a run of its handler.
MasterHandled ==
    \A p \in MasterProcs, sig \in {SIGHUP, SIGCHLD} :
        (sig \in ma_due[p]) ~> (sig \notin ma_due[p])

\* The part of C40 about the order of the steps of the loop.
MasterLoopOrder == [][MasterClearedFirst]_vars /\ []MasterSighupFirst

MaxLines == 2           \* bound: the records read from the standard input

REC_TYPE_FULL == "F"
REC_TYPE_FROM == "S"
REC_TYPE_ATTR == "A"
REC_TYPE_VERP == "V"
REC_TYPE_RCPT == "R"
REC_TYPE_MESG == "M"
REC_TYPE_NORM == "N"
REC_TYPE_CONT == "L"
REC_TYPE_XTRA == "X"
REC_TYPE_END == "E"

STRIP_CR_DUNNO == "STRIP_CR_DUNNO"
STRIP_CR_DO == "STRIP_CR_DO"
STRIP_CR_DONT == "STRIP_CR_DONT"

Rec(type, data) == [type |-> type, data |-> data]

\* What rec_streamlf_get() reads: a line, or a piece of a line that goes on.
InputLines ==
    {[type |-> REC_TYPE_NORM, text |-> t, cr |-> FALSE] :
         t \in {"From_", ".", "text"}}
        \cup {[type |-> REC_TYPE_NORM, text |-> "text", cr |-> TRUE],
              [type |-> REC_TYPE_CONT, text |-> "text", cr |-> FALSE]}

\* The command-line recipients, each as the addresses that tok822_parse()
\* finds in it; no recipient arguments at all is the empty list.
RecipientArgs ==
    { <<>>, << <<"a">> >>, << <<"a", "b">>, <<>>, <<"c">> >> }

\* enqueue(), lines 448-462: the recipient records, up to a write error.
RECURSIVE PutRcpts(_, _, _)
PutRcpts(addrs, write_ok, dst) ==
    IF addrs = <<>> THEN [dst |-> dst, fatal |-> ""]
    ELSE IF ~write_ok THEN [dst |-> dst, fatal |-> "EX_TEMPFAIL"]
    ELSE PutRcpts(Tail(addrs), write_ok,
                  Append(dst, Rec(REC_TYPE_RCPT, Head(addrs))))

RECURSIVE Flatten(_)
Flatten(lists) ==
    IF lists = <<>> THEN <<>> ELSE Head(lists) \o Flatten(Tail(lists))

\* enqueue(), lines 438-462: the envelope records.
enqueue_envelope_rcpt_first(in) ==
    LET r == PutRcpts(Flatten(in.recipients), in.rcpt_write_ok, <<>>)
        d1 == IF in.full_name THEN Append(r.dst, Rec(REC_TYPE_FULL, "name"))
              ELSE r.dst
        d2 == Append(d1, Rec(REC_TYPE_FROM, in.sender))
        d3 == IF in.encoding THEN Append(d2, Rec(REC_TYPE_ATTR, "encoding"))
              ELSE d2
        d4 == IF in.verp_delims THEN Append(d3, Rec(REC_TYPE_VERP, "+="))
              ELSE d3
    IN IF in.verp_delims /\ in.sender = ""
       THEN [dst |-> d2, fatal |-> "EX_USAGE"]
       ELSE [dst |-> d4, fatal |-> r.fatal]

enqueue_envelope(in) ==
    LET d1 == IF in.full_name THEN <<Rec(REC_TYPE_FULL, "name")>> ELSE <<>>
        d2 == Append(d1, Rec(REC_TYPE_FROM, in.sender))
        d3 == IF in.encoding THEN Append(d2, Rec(REC_TYPE_ATTR, "encoding"))
              ELSE d2
        d4 == IF in.verp_delims THEN Append(d3, Rec(REC_TYPE_VERP, "+="))
              ELSE d3
    IN IF in.verp_delims /\ in.sender = ""
       THEN [dst |-> d2, fatal |-> "EX_USAGE"]
       ELSE PutRcpts(Flatten(in.recipients), in.rcpt_write_ok, d4)

\* enqueue(), lines 476-502: the loop over the input, from the state that
\* st holds: the records written, skip_from_, strip_cr and prev_type.
RECURSIVE ContentLoop(_, _, _)
ContentLoop(in, lines, st) ==
    IF lines = <<>> THEN st
    ELSE LET line == Head(lines)
             norm == line.type = REC_TYPE_NORM
             strip_cr == IF st.strip_cr = STRIP_CR_DUNNO /\ norm
                         THEN IF line.cr THEN STRIP_CR_DO ELSE STRIP_CR_DONT
                         ELSE st.strip_cr
             skipped == st.skip_from_ /\ norm /\ line.text = "From_"
             cr == line.cr /\ ~(strip_cr = STRIP_CR_DO /\ norm)
             s1 == [st EXCEPT !.strip_cr = strip_cr,
                              !.prev_type = line.type]
         IN IF skipped THEN ContentLoop(in, Tail(lines), s1)
            ELSE IF in.aeof /\ st.prev_type # REC_TYPE_CONT
                    /\ line.text = "." /\ ~cr
            THEN [s1 EXCEPT !.skip_from_ = FALSE, !.prev_type = st.prev_type]
            ELSE IF ~in.content_write_ok
            THEN [s1 EXCEPT !.skip_from_ = FALSE, !.fatal = "EX_TEMPFAIL"]
            ELSE ContentLoop(in, Tail(lines),
                     [s1 EXCEPT !.skip_from_ = FALSE,
                                !.dst = Append(@, Rec(line.type,
                                            [text |-> line.text,
                                             cr |-> cr]))])

\* enqueue(), lines 473-502: the message content.
enqueue_content(in, dst) ==
    ContentLoop(in, in.lines,
                [dst |-> Append(dst, Rec(REC_TYPE_MESG, "0")),
                 skip_from_ |-> TRUE, strip_cr |-> STRIP_CR_DUNNO,
                 prev_type |-> "", fatal |-> ""])

\* enqueue(), lines 438-528: the records written and how the call ends.
enqueue(in) ==
    LET env == enqueue_envelope(in)
        body == enqueue_content(in, env.dst)
        all == body.dst \o <<Rec(REC_TYPE_XTRA, ""), Rec(REC_TYPE_END, "")>>
    IN IF env.fatal # "" THEN [dst |-> env.dst, exit |-> env.fatal]
       ELSE IF body.fatal # "" THEN [dst |-> body.dst, exit |-> body.fatal]
       ELSE IF in.read_error THEN [dst |-> all, exit |-> "EX_DATAERR"]
       ELSE IF ~in.finish_ok THEN [dst |-> all, exit |-> "EX_UNAVAILABLE"]
       ELSE [dst |-> all, exit |-> "completed"]

EnqueueIdleIn ==
    [full_name |-> FALSE, sender |-> "", encoding |-> FALSE,
     verp_delims |-> FALSE, recipients |-> <<>>, lines |-> <<>>,
     aeof |-> FALSE, rcpt_write_ok |-> TRUE, content_write_ok |-> TRUE,
     read_error |-> FALSE, finish_ok |-> TRUE]

EInit ==
    /\ eq_in = EnqueueIdleIn
    /\ eq_dst = <<>>
    /\ eq_exit = ""

\* One submission.
Enqueue ==
    /\ eq_exit = ""
    /\ \E full_name, encoding, verp_delims, aeof \in BOOLEAN,
          sender \in {"", "s"}, recipients \in RecipientArgs,
          lines \in SeqsUpTo(InputLines, MaxLines),
          trouble \in {"none", "rcpt", "content", "read", "finish"} :
          LET in == [full_name |-> full_name, sender |-> sender,
                     encoding |-> encoding, verp_delims |-> verp_delims,
                     recipients |-> recipients, lines |-> lines,
                     aeof |-> aeof,
                     rcpt_write_ok |-> trouble # "rcpt",
                     content_write_ok |-> trouble # "content",
                     read_error |-> trouble = "read",
                     finish_ok |-> trouble # "finish"]
          IN \E r \in {enqueue(in)} :
                /\ eq_in' = in
                /\ eq_dst' = r.dst
                /\ eq_exit' = r.exit
    /\ UNCHANGED noteqvars

ENext ==
    \/ Enqueue

\* The place of a record type in the order of a submission.
RecRank(type) ==
    CASE type = REC_TYPE_FULL -> 1
      [] type = REC_TYPE_FROM -> 2
      [] type = REC_TYPE_ATTR -> 3
      [] type = REC_TYPE_VERP -> 4
      [] type = REC_TYPE_RCPT -> 5
      [] type = REC_TYPE_MESG -> 6
      [] type \in {REC_TYPE_NORM, REC_TYPE_CONT} -> 7
      [] type = REC_TYPE_XTRA -> 8
      [] type = REC_TYPE_END -> 9

RecCount(dst, type) == Cardinality({i \in DOMAIN dst : dst[i].type = type})

\* C32: the records of a submission that enqueue completes come in the
\* order FULL (at most one), FROM (one), ATTR (at most one), VERP (at most
\* one), RCPT (any number), MESG (one), NORM or CONT (any number), XTRA
\* (one), END (one, the last record): no envelope record follows MESG and
\* no content record follows XTRA.
C32_SubmissionOrder ==
    eq_exit = "completed" =>
        /\ \A i, j \in DOMAIN eq_dst :
               i < j => RecRank(eq_dst[i].type) <= RecRank(eq_dst[j].type)
        /\ \A type \in {REC_TYPE_FULL, REC_TYPE_ATTR, REC_TYPE_VERP} :
               RecCount(eq_dst, type) <= 1
        /\ \A type \in {REC_TYPE_FROM, REC_TYPE_MESG, REC_TYPE_XTRA,
                        REC_TYPE_END} :
               RecCount(eq_dst, type) = 1
        /\ eq_dst[Len(eq_dst)].type = REC_TYPE_END

\* A completed submission with every optional record, several recipients
\* and content of both record types.
C32_Witness ==
    /\ eq_exit = "completed"
    /\ \A type \in {REC_TYPE_FULL, REC_TYPE_ATTR, REC_TYPE_VERP,
                    REC_TYPE_NORM, REC_TYPE_CONT} :
           RecCount(eq_dst, type) = 1
    /\ RecCount(eq_dst, REC_TYPE_RCPT) > 1

(***************************************************************************)
(* Part 12.  make_dirs.c                                                   *)
(*                                                                         *)
(* Two processes call make_dirs() with the same path.  The path has        *)
(* MaxDepth components; component k stands for the path up to and with     *)
(* its k-th name.  The stat() and the mkdir() of a process are system      *)
(* calls of their own: calls of the other process may come between them.   *)
(***************************************************************************)

MaxDepth == 2           \* bound: the components of the path

MdProcs == {"p1", "p2"}

ENOENT == "ENOENT"
ENOTDIR == "ENOTDIR"
EEXIST == "EEXIST"
EACCES == "EACCES"

\* What a system call hands back: its value, errno and the file system.
SysResult(ret, errno, fs) == [ret |-> ret, errno |-> errno, fs |-> fs]

\* stat(2) of component k.  err is an error that the system makes up for
\* the call (no search permission), or "".  The mode is "dir" or "file".
stat(fs, k, err) ==
    IF err # "" THEN [ret |-> -1, errno |-> err, mode |-> "none"]
    ELSE IF \E j \in 1..(k - 1) : fs[j] = "file"
    THEN [ret |-> -1, errno |-> ENOTDIR, mode |-> "none"]
    ELSE IF fs[k] = "none" THEN [ret |-> -1, errno |-> ENOENT, mode |-> "none"]
    ELSE [ret |-> 0, errno |-> "", mode |-> fs[k]]

\* mkdir(2) of component k.
mkdir(fs, k, err) ==
    IF err # "" THEN SysResult(-1, err, fs)
    ELSE IF \E j \in 1..(k - 1) : fs[j] = "file"
    THEN SysResult(-1, ENOTDIR, fs)
    ELSE IF \E j \in 1..(k - 1) : fs[j] = "none"
    THEN SysResult(-1, ENOENT, fs)
    ELSE IF fs[k] # "none" THEN SysResult(-1, EEXIST, fs)
    ELSE SysResult(0, "", [fs EXCEPT ![k] = "dir"])

\* The state of one call: where it is, the component at cp, ret and errno.
MdCall(pc, cp, ret, errno) == [pc |-> pc, cp |-> cp, ret |-> ret, errno |-> errno]

\* make_dirs, lines 77-79, 82 and 94: out of the loop, with ret as it is.
MdBreak(c, ret, errno) == MdCall("returned", c.cp, ret, errno)

\* make_dirs, lines 83-87: on to the next component, or out of the loop
\* when this was the last one.
MdAdvance(c, ret) ==
    IF c.cp = MaxDepth THEN MdCall("returned", c.cp, ret, c.errno)
    ELSE MdCall("stat", c.cp + 1, ret, c.errno)

\* make_dirs, lines 75-81: the component exists and is a directory, or is
\* something else, or is missing, or cannot be looked at.
MdAfterStat(c, st) ==
    IF st.ret >= 0 THEN
        IF st.mode # "dir" THEN MdBreak(c, -1, ENOTDIR)
        ELSE MdAdvance(c, st.ret)
    ELSE IF st.errno # ENOENT THEN MdBreak(c, st.ret, st.errno)
    ELSE MdCall("mkdir", c.cp, st.ret, st.errno)

\* make_dirs, lines 81-82: the outcome of mkdir().
MdAfterMkdir(c, r) ==
    IF r.ret < 0 THEN MdBreak(c, r.ret, r.errno)
    ELSE MdAdvance(c, r.ret)

\* The trees that the path may meet: below a missing component and below a
\* file there is nothing.
MdTrees ==
    {fs \in [1..MaxDepth -> {"none", "dir", "file"}] :
        \A k \in 2..MaxDepth : fs[k] # "none" => fs[k - 1] = "dir"}

MdIdleCall == MdCall("idle", 1, 0, "")

MdInitWith(fs) ==
    /\ md_fs = fs
    /\ md_fs0 = fs
    /\ md_call = [p \in MdProcs |-> MdIdleCall]
    /\ md_fault = FALSE

MdInit == \E fs \in MdTrees : MdInitWith(fs)

\* Process p calls make_dirs(path, perms): lines 61-72, up to the first stat().
MakeDirs(p) ==
    /\ md_call[p].pc = "idle"
    /\ md_call' = [md_call EXCEPT ![p] = MdCall("stat", 1, 0, "")]
    /\ UNCHANGED <<md_fs, md_fs0, md_fault>>
    /\ UNCHANGED notmdvars

\* The stat() of process p, line 75, and what the code does with it.
MakeDirsStat(p, err) ==
    /\ md_call[p].pc = "stat"
    /\ md_call' = [md_call EXCEPT
                      ![p] = MdAfterStat(@, stat(md_fs, md_call[p].cp, err))]
    /\ md_fault' = (md_fault \/ err # "")
    /\ UNCHANGED <<md_fs, md_fs0>>
    /\ UNCHANGED notmdvars

\* The mkdir() of process p, line 81, and what the code does with it.
MakeDirsMkdir(p, err) ==
    /\ md_call[p].pc = "mkdir"
    /\ \E r \in {mkdir(md_fs, md_call[p].cp, err)} :
          /\ md_fs' = r.fs
          /\ md_call' = [md_call EXCEPT ![p] = MdAfterMkdir(@, r)]
    /\ md_fault' = (md_fault \/ err # "")
    /\ UNCHANGED md_fs0
    /\ UNCHANGED notmdvars

MdNext ==
    \/ \E p \in MdProcs : MakeDirs(p)
    \/ \E p \in MdProcs, err \in {"", EACCES} : MakeDirsStat(p, err)
    \/ \E p \in MdProcs, err \in {"", EACCES} : MakeDirsMkdir(p, err)

(***************************************************************************)
(* Properties of part 12.                                                  *)
(***************************************************************************)

MdReturned(p) == md_call[p].pc = "returned"

\* No component of the path was there as something other than a directory,
\* and the system refused no call.
MdClean ==
    /\ \A k \in 1..MaxDepth : md_fs0[k] # "file"
    /\ ~md_fault

MdAllDirs == \A k \in 1..MaxDepth : md_fs[k] = "dir"

\* C39 as stated: when two processes run make_dirs concurrently on the same
\* path and no component exists as a non-directory, both calls return 0 and
\* afterwards every component of the path exists as a directory; a component
\* that the other process creates between the stat and the mkdir of this
\* process is not reported as a failure.
C39_ConcurrentMakeDirs ==
    MdClean =>
        /\ \A p \in MdProcs : MdReturned(p) => md_call[p].ret = 0
        /\ (\A p \in MdProcs : MdReturned(p)) => MdAllDirs

\* What the code does keep: a call that returns 0 leaves the whole path as
\* directories, and a call that fails on a clean path failed with EEXIST for
\* a component that is a directory by now.
MdFailsOnlyByRace ==
    /\ \A p \in MdProcs :
          (MdReturned(p) /\ md_call[p].ret = 0) => MdAllDirs
    /\ MdClean =>
          \A p \in MdProcs :
              (MdReturned(p) /\ md_call[p].ret # 0) =>
                  /\ md_call[p].errno = EEXIST
                  /\ md_fs[md_call[p].cp] = "dir"

(***************************************************************************)
(* The specifications.  The idle state of a part is the state in which     *)
(* the specification of another part leaves it.                            *)
(***************************************************************************)

QIdle == QInit

SIdle ==
    /\ has_fsync = TRUE
    /\ ms_file = [f \in StreamFiles |-> [exists |-> FALSE, mode |-> 0]]
    /\ ms_stream = [f \in StreamFiles |-> "none"]
    /\ ms_status = [f \in StreamFiles |-> NotFinished]
    /\ ms_calls = [f \in StreamFiles |-> <<>>]

CIdle == CInitWith([k \in MapKeys |-> <<>>])

MIdle ==
    /\ sm_dns = SmtpIdleDns
    /\ sm_conf = SmtpIdleConf
    /\ sm_r = SmtpIdleResult
    /\ sm_called = FALSE

FIdle == FInit

BIdle ==
    /\ bl_file = <<>>
    /\ bl_bp = NoHandle
    /\ bl_op = "none"
    /\ bl_ret = FALSE
    /\ bl_marked = {}
    /\ bl_reopened = FALSE
    /\ bl_appended = 0
    /\ bl_marks = 0

AIdle == AInit

LIdle == LInit

PIdle ==
    PInitWith(<<PipeArgvAttr(PipeSimpleCommand)>>, "")

MaIdle == MaInitWith(FALSE)

EIdle == EInit

MdIdle == MdInit

InitQmgr == QInit /\ SIdle /\ CIdle /\ MIdle /\ FIdle /\ BIdle /\ AIdle /\
    LIdle /\ PIdle /\ MaIdle /\ EIdle /\ MdIdle

SpecQmgr == InitQmgr /\ [][QNext]_vars

SpecQmgrPanic == InitQmgr /\ [][QPanicNext]_vars

InitStream == SInit /\ QIdle /\ CIdle /\ MIdle /\ FIdle /\ BIdle /\ AIdle /\
    LIdle /\ PIdle /\ MaIdle /\ EIdle /\ MdIdle

SpecStream == InitStream /\ [][SNext]_vars

InitCleanup == CInit /\ QIdle /\ SIdle /\ MIdle /\ FIdle /\ BIdle /\ AIdle /\
    LIdle /\ PIdle /\ MaIdle /\ EIdle /\ MdIdle

SpecCleanup == InitCleanup /\ [][CNext]_vars

InitCleanupChain == CChainInit /\ QIdle /\ SIdle /\ MIdle /\ FIdle /\
    BIdle /\ AIdle /\ LIdle /\ PIdle /\ MaIdle /\ EIdle /\ MdIdle

SpecCleanupChain == InitCleanupChain /\ [][CChainNext]_vars

InitSmtp == MInit /\ QIdle /\ SIdle /\ CIdle /\ FIdle /\ BIdle /\ AIdle /\
    LIdle /\ PIdle /\ MaIdle /\ EIdle /\ MdIdle

SpecSmtp == InitSmtp /\ [][MNext]_vars

InitFifo == FInit /\ QIdle /\ SIdle /\ CIdle /\ MIdle /\ BIdle /\ AIdle /\
    LIdle /\ PIdle /\ MaIdle /\ EIdle /\ MdIdle

SpecFifo == InitFifo /\ [][FNext]_vars

\* event_loop(-1) does not return before it has delivered a pending event.
SpecFifoFair == InitFifo /\ [][FNext]_vars /\ WF_vars(ReadEvent)

InitBounceLog == BInit /\ QIdle /\ SIdle /\ CIdle /\ MIdle /\ FIdle /\
    AIdle /\ LIdle /\ PIdle /\ MaIdle /\ EIdle /\ MdIdle

SpecBounceLog == InitBounceLog /\ [][BNext]_vars

InitAlias == AInit /\ QIdle /\ SIdle /\ CIdle /\ MIdle /\ FIdle /\ BIdle /\
    LIdle /\ PIdle /\ MaIdle /\ EIdle /\ MdIdle

SpecAlias == InitAlias /\ [][ANext]_vars

\* The local delivery agent runs a request to its end.
SpecAliasFair == InitAlias /\ [][ANext]_vars /\ WF_vars(ANext)

InitLocalFile == LInit /\ QIdle /\ SIdle /\ CIdle /\ MIdle /\ FIdle /\
    BIdle /\ AIdle /\ PIdle /\ MaIdle /\ EIdle /\ MdIdle

SpecLocalFile == InitLocalFile /\ [][LNext]_vars

InitPipe == PInit /\ QIdle /\ SIdle /\ CIdle /\ MIdle /\ FIdle /\ BIdle /\
    AIdle /\ LIdle /\ MaIdle /\ EIdle /\ MdIdle

SpecPipe == InitPipe /\ [][PNext]_vars

InitMaster == MaInit /\ QIdle /\ SIdle /\ CIdle /\ MIdle /\ FIdle /\ BIdle /\
    AIdle /\ LIdle /\ PIdle /\ EIdle /\ MdIdle

SpecMaster == InitMaster /\ [][MaNext]_vars

\* A master that runs takes the next step of its main loop; whether a
\* signal or an event comes is up to the world around it.
SpecMasterFair == InitMaster /\ [][MaNext]_vars /\ WF_vars(MasterLoopStep)

InitEnqueue == EInit /\ QIdle /\ SIdle /\ CIdle /\ MIdle /\ FIdle /\ BIdle /\
    AIdle /\ LIdle /\ PIdle /\ MaIdle /\ MdIdle

SpecEnqueue == InitEnqueue /\ [][ENext]_vars

InitMakeDirs == MdInit /\ QIdle /\ SIdle /\ CIdle /\ MIdle /\ FIdle /\
    BIdle /\ AIdle /\ LIdle /\ PIdle /\ MaIdle /\ EIdle

SpecMakeDirs == InitMakeDirs /\ [][MdNext]_vars

====
